---- MODULE Spec2Model ----
(***************************************************************************)
(* Relation-consistency core of the HBnB record service: the repositories, *)
(* the entity facades and the two relation managers                        *)
(* (FacadeRelationManager over the in-memory / in-file repositories, and   *)
(* SQLAlchemyFacadeRelationManager over the SQLAlchemy repository).        *)
(*                                                                         *)
(* The variable backend selects which manager/repository pair is active,   *)
(* exactly as the routes do from REPO_TYPE.  Cascading deletions are       *)
(* modelled one store write per step, and so is create_place_for_user when *)
(* two callers run it at the same time (callers); every other handler is   *)
(* one action.                                                             *)
(***************************************************************************)
EXTENDS Integers, Sequences, FiniteSets, TLC

VARIABLES backend, users, places, reviews, amenities, ids, call, last, interrupted,
          callers, files, entity

vars == <<backend, users, places, reviews, amenities, ids, call, last, interrupted,
          callers, files, entity>>

(***************************************************************************)
(* Bounds of the model: how many entities of each type are ever created    *)
(* (a creating handler is called only while its type is below its bound),  *)
(* and how many names a place's amenities list grows to.                   *)
(***************************************************************************)
MaxUsers == 1
MaxPlaces == 2
MaxReviews == 2
MaxAmenities == 3
MaxListed == 1

(***************************************************************************)
(* Identifiers.  BaseModel.__init__ draws a fresh uuid4 for every entity:  *)
(* the n-th entity of a type gets an id never used before.                 *)
(***************************************************************************)
UserId(n) == "u" \o ToString(n)
PlaceId(n) == "p" \o ToString(n)
ReviewId(n) == "r" \o ToString(n)
AmenityId(n) == "a" \o ToString(n)

\* The ids a caller may name: every id handed out so far and one that never
\* was (ids that never were handed out are interchangeable).
Upto(n, max) == 1..(IF n < max THEN n + 1 ELSE max)
UserIds == {UserId(n) : n \in Upto(ids.u, MaxUsers)}
PlaceIds == {PlaceId(n) : n \in Upto(ids.p, MaxPlaces)}
ReviewIds == {ReviewId(n) : n \in Upto(ids.r, MaxReviews)}

(***************************************************************************)
(* Inputs the callers may send.                                            *)
(***************************************************************************)
Backends == {"whole", "sql"}
Email(n) == "user" \o ToString(n) \o "@b.com"
Title(n) == "Loft " \o ToString(n)
Emails == {Email(n) : n \in 1..MaxUsers} \cup {"not-an-email"}
FirstNames == {"Al", ""}
Titles == {Title(n) : n \in 1..MaxPlaces} \cup {""}
Names == {"Wifi", "Sauna", "", " "}
UserData == [email : Emails, first_name : FirstNames]
GoodPlace(title) ==
    [title |-> title, price |-> 100, latitude |-> 10, longitude |-> 10, floats |-> TRUE]
\* One payload per branch of Place.is_valid that refuses, and the well-formed
\* ones.
PlaceData ==
    {GoodPlace(t) : t \in Titles}
    \cup {[GoodPlace(Title(1)) EXCEPT !.price = -1],
          [GoodPlace(Title(1)) EXCEPT !.floats = FALSE],
          [GoodPlace(Title(1)) EXCEPT !.latitude = 91],
          [GoodPlace(Title(1)) EXCEPT !.latitude = -91],
          [GoodPlace(Title(1)) EXCEPT !.longitude = 181]}
\* The same, and payloads with a longitude below the range, with a latitude in
\* and below the range.
PlaceDataAnyLongitude ==
    PlaceData \cup {[GoodPlace(t) EXCEPT !.longitude = -181] : t \in Titles \ {""}}
              \cup {[GoodPlace(Title(1)) EXCEPT !.longitude = -181, !.latitude = -181]}
\* One payload per branch of Review.is_valid on the fields a caller chooses,
\* and the well-formed one.  The place_id and user_id keys of a payload name
\* some place and user of the caller's choice.
GoodReview == [rating |-> 5, text |-> "Great", place_id |-> "p0", user_id |-> "u0"]
ReviewData ==
    {GoodReview, [GoodReview EXCEPT !.rating = 0], [GoodReview EXCEPT !.rating = 6],
     [GoodReview EXCEPT !.rating = 3, !.text = ""]}

(***************************************************************************)
(* Python list operations used by the managers.                            *)
(***************************************************************************)
Range(s) == {s[i] : i \in 1..Len(s)}

Contains(s, x) == x \in Range(s)

Count(s, x) == Cardinality({i \in 1..Len(s) : s[i] = x})

\* list.remove(x): drops the first occurrence only.
ListRemove(s, x) ==
    LET i == CHOOSE k \in 1..Len(s) : s[k] = x /\ \A j \in 1..(k - 1) : s[j] # x
    IN SubSeq(s, 1, i - 1) \o SubSeq(s, i + 1, Len(s))

\* [y for y in s if y != x]: drops every occurrence.
ListWithout(s, x) == SelectSeq(s, LAMBDA y : y # x)

(***************************************************************************)
(* Repository contract (InMemoryRepository, InFileRepository and           *)
(* SQLAlchemyRepository agree on it): a map id -> entity.                  *)
(***************************************************************************)
repo_has(storage, obj_id) == obj_id \in DOMAIN storage

repo_add(storage, obj_id, obj) ==
    [k \in DOMAIN storage \cup {obj_id} |-> IF k = obj_id THEN obj ELSE storage[k]]

repo_update(storage, obj_id, obj) ==
    IF repo_has(storage, obj_id) THEN [storage EXCEPT ![obj_id] = obj] ELSE storage

repo_delete(storage, obj_id) ==
    IF repo_has(storage, obj_id)
    THEN [k \in DOMAIN storage \ {obj_id} |-> storage[k]]
    ELSE storage

\* A lookup that never finds a match.
get_by_attribute_none(storage, attr_name, attr_value) == {}

get_by_attribute(storage, attr_name, attr_value) ==
    {k \in DOMAIN storage : storage[k][attr_name] = attr_value}

Empty == [k \in {} |-> 0]

(***************************************************************************)
(* Field validation of the models.  validate_email is the email_validator  *)
(* library: it accepts every address of Emails but "not-an-email".          *)
(***************************************************************************)
validate_email(email) == email # "not-an-email"

User_is_valid(d) ==
    /\ 0 < Len(d.first_name) /\ Len(d.first_name) <= 50
    /\ 0 < Len(d.email) /\ Len(d.email) <= 50
    /\ validate_email(d.email)

Place_is_valid(d) ==
    /\ ~(d.price < 0)
    /\ 0 < Len(d.title) /\ Len(d.title) < 100
    /\ d.floats
    /\ ~(d.latitude > 90 \/ d.latitude < -90)
    /\ ~(d.longitude > 180 \/ d.latitude < -180)

Review_is_valid(d) ==
    /\ ~(d.rating < 1 \/ d.rating > 5)
    /\ 0 < Len(d.text) /\ Len(d.text) <= 1024
    /\ 0 < Len(d.place_id) /\ Len(d.place_id) <= 50
    /\ 0 < Len(d.user_id) /\ Len(d.user_id) <= 50

\* str.strip() on the names of Names: the blank name strips to the empty one,
\* the others have no surrounding blanks.
Strip(name) == IF name = " " THEN "" ELSE name

Amenity_is_valid(name) == 0 < Len(Strip(name)) /\ Len(Strip(name)) < 50

(***************************************************************************)
(* Results of a call: the kind of ValueError raised, "Internal" for an     *)
(* exception that is not a ValueError, "ok" for a normal return.           *)
(***************************************************************************)
NoCall == [op |-> "none", res |-> "none"]

\* What lies outside the subtree of a user: nothing is recorded outside a
\* deletion of a user.
NoOutside == [users |-> Empty, places |-> Empty, reviews |-> Empty, amenities |-> Empty]

NoCascade ==
    [pc |-> "idle", top |-> "-", user |-> "-", uidx |-> 0, ulist |-> <<>>,
     place |-> "-", ridx |-> 0, rlist |-> <<>>,
     start_places |-> <<>>, start_reviewed |-> {}, owned |-> {}, invoked |-> {},
     pre_empty |-> FALSE, retry |-> FALSE, outside |-> NoOutside]

\* Two callers that run a handler of the managers at the same time, each in
\* its own request.  A caller's record holds its position in the handler (pc),
\* its arguments, what it keeps in local variables, its outcome (res) and
\* whether it was the one that wrote the user last (wrote_last).
Callers == {"A", "B"}

NoCaller ==
    [pc |-> "idle", user |-> "-", title |-> "-", place |-> "-", local |-> <<>>,
     res |-> "-", wrote_last |-> FALSE, name |-> "-", existing |-> FALSE]

idle == call.pc = "idle"

\* A caller that has entered its handler and not left it.
Running(c) == callers[c].pc \notin {"idle", "done"}

(***************************************************************************)
(* The files of the file-backed repositories (InFileRepository), one per   *)
(* entity type.  save_to_file writes the map id -> to_dict() of the held   *)
(* entities; add, update of a held id and delete of a held id end with it. *)
(* The transactional backend has no such files.                            *)
(***************************************************************************)
to_dict(obj, type) == [k \in DOMAIN obj \cup {"type"} |-> IF k = "type" THEN type ELSE obj[k]]

\* save_to_file that leaves the file as it is.
save_to_file_skipped(file, storage, type) == file

save_to_file(file, storage, type) == [k \in DOMAIN storage |-> to_dict(storage[k], type)]

NoFiles == [users |-> Empty, places |-> Empty, reviews |-> Empty, amenities |-> Empty]

\* The files after a handler that writes through the repositories: a
\* collection that the handler changed has been saved by the add, update or
\* delete that changed it.
FilesAfter ==
    IF backend = "whole"
    THEN [users |-> IF users' # users
                    THEN save_to_file(files.users, users', "user") ELSE files.users,
          places |-> IF places' # places
                     THEN save_to_file(files.places, places', "place") ELSE files.places,
          reviews |-> IF reviews' # reviews
                      THEN save_to_file(files.reviews, reviews', "review") ELSE files.reviews,
          amenities |-> IF amenities' # amenities
                        THEN save_to_file(files.amenities, amenities', "amenity")
                        ELSE files.amenities]
    ELSE files

\* The object a caller holds outside the repositories; none at first.
NoEntity == <<>>

(***************************************************************************)
(* Initial state: empty repositories, either backend.                      *)
(***************************************************************************)
Init ==
    /\ backend \in Backends
    /\ users = Empty
    /\ places = Empty
    /\ reviews = Empty
    /\ amenities = Empty
    /\ ids = [u |-> 0, p |-> 0, r |-> 0, a |-> 0]
    /\ call = NoCascade
    /\ last = NoCall
    /\ interrupted = "none"
    /\ callers = [c \in Callers |-> NoCaller]
    /\ files = NoFiles
    /\ entity = NoEntity

(***************************************************************************)
(* UserFacade.create_user                                                  *)
(***************************************************************************)
\* Addresses and titles are interchangeable: a caller sends one that is held
\* already, an ill-formed one, or the first one that is not held.
FirstFree(names, held) ==
    {names[k] : k \in {i \in 1..Len(names) : names[i] \notin held
                                              /\ \A j \in 1..(i - 1) : names[j] \in held}}

HeldEmails == {users[k].email : k \in DOMAIN users}

HeldTitles == {places[k].title : k \in DOMAIN places}

\* What a call of a create of a Facade leaves in last: its outcome and whether
\* the call wrote to a repository.
FacadeCreateResult(op, res) ==
    [op |-> op, res |-> res,
     changed |-> <<users, places, reviews, amenities>>'
                    # <<users, places, reviews, amenities>>]

\* max bounds the users that are made; a call that is refused can always be
\* made.
create_user_upto(d, max) ==
    /\ idle
    /\ \/ ids.u < max
       \/ get_by_attribute(users, "email", d.email) # {}
       \/ ~User_is_valid(d)
    /\ d.email \in HeldEmails \cup FirstFree([n \in 1..max |-> Email(n)], HeldEmails) \cup {"not-an-email"}
    /\ interrupted' = "none"
    /\ UNCHANGED callers
    /\ UNCHANGED <<backend, places, reviews, amenities, call>>
    /\ IF get_by_attribute(users, "email", d.email) # {}
       THEN /\ UNCHANGED <<users, ids>>
            /\ last' = FacadeCreateResult("create_user", "Conflict")
       ELSE IF ~User_is_valid(d)
       THEN /\ UNCHANGED <<users, ids>>
            /\ last' = FacadeCreateResult("create_user", "Validation")
       ELSE /\ users' = repo_add(users, UserId(ids.u + 1),
                                 [email |-> d.email, places |-> <<>>])
            /\ ids' = [ids EXCEPT !.u = @ + 1]
            /\ last' = FacadeCreateResult("create_user", "ok")
    /\ UNCHANGED entity
    /\ files' = FilesAfter

create_user(d) == create_user_upto(d, MaxUsers)

\* PlaceFacade.create_place with the place added before it is validated: a
\* call that raises the Validation error has written the place already.
PlaceFacade_create_place_added_first(d, owner_id) ==
    IF get_by_attribute(places, "title", d.title) # {}
    THEN [res |-> "Conflict", repo |-> places]
    ELSE [res |-> IF Place_is_valid(d) THEN "ok" ELSE "Validation",
          id |-> PlaceId(ids.p + 1),
          repo |-> repo_add(places, PlaceId(ids.p + 1),
                            [title |-> d.title, price |-> d.price, latitude |-> d.latitude,
                             longitude |-> d.longitude, owner_id |-> owner_id,
                             reviews |-> <<>>, amenities |-> <<>>])]

(***************************************************************************)
(* PlaceFacade.create_place: the outcome and the Place repository after it.*)
(***************************************************************************)
PlaceFacade_create_place(d, owner_id) ==
    IF get_by_attribute(places, "title", d.title) # {}
    THEN [res |-> "Conflict", repo |-> places]
    ELSE IF ~Place_is_valid(d)
    THEN [res |-> "Validation", repo |-> places]
    ELSE [res |-> "ok", id |-> PlaceId(ids.p + 1),
          repo |-> repo_add(places, PlaceId(ids.p + 1),
                            [title |-> d.title, price |-> d.price, latitude |-> d.latitude,
                             longitude |-> d.longitude, owner_id |-> owner_id,
                             reviews |-> <<>>, amenities |-> <<>>])]

\* The user's list left as it was: the new place id is never listed.
PlacesWithNew_unlisted(user_places, place_id) == user_places

(***************************************************************************)
(* create_place_for_user, both managers.  The whole-object manager appends *)
(* to the list of the stored user and rewrites the user; the transactional *)
(* manager appends only if the id is not yet listed.                       *)
(***************************************************************************)
PlacesWithNew(user_places, place_id) ==
    IF backend = "whole"
    THEN Append(user_places, place_id)
    ELSE IF ~Contains(user_places, place_id)
         THEN user_places \o <<place_id>>
         ELSE user_places

\* What a call of create_place_for_user leaves in last: its outcome, what the
\* call met (pre: a user that is "absent", else a title that is "taken", else
\* data that is "invalid", else "fine"), whether it wrote to the users or the
\* places, and for a normal return the user and the id of the place returned.
CreatePlaceResult(user_id, d, res) ==
    [op |-> "create_place_for_user", res |-> res,
     pre |-> IF ~repo_has(users, user_id) THEN "absent"
             ELSE IF get_by_attribute(places, "title", d.title) # {} THEN "taken"
             ELSE IF ~Place_is_valid(d) THEN "invalid"
             ELSE "fine",
     changed |-> <<users, places>>' # <<users, places>>,
     user |-> IF res = "ok" THEN user_id ELSE "-",
     ret |-> IF res = "ok" THEN PlaceId(ids.p + 1) ELSE "-"]

create_place_for_user(user_id, d) ==
    /\ idle
    /\ ids.p < MaxPlaces
    /\ d.title \in HeldTitles \cup FirstFree([n \in 1..MaxPlaces |-> Title(n)], HeldTitles)
                  \cup {""}
    /\ interrupted' = "none"
    /\ UNCHANGED callers
    /\ UNCHANGED <<backend, reviews, amenities, call>>
    /\ IF ~repo_has(users, user_id)
       THEN /\ UNCHANGED <<users, places, ids>>
            /\ last' = CreatePlaceResult(user_id, d, "NotFound")
       ELSE LET r == PlaceFacade_create_place(d, user_id) IN
            /\ places' = r.repo
            /\ IF r.res # "ok"
               THEN /\ UNCHANGED <<users, ids>>
                    /\ last' = CreatePlaceResult(user_id, d, r.res)
               ELSE /\ ids' = [ids EXCEPT !.p = @ + 1]
                    /\ users' = repo_update(users, user_id,
                           [users[user_id] EXCEPT !.places = PlacesWithNew(@, r.id)])
                    /\ last' = CreatePlaceResult(user_id, d, "ok")
    /\ UNCHANGED entity
    /\ files' = FilesAfter

(***************************************************************************)
(* create_place_for_user run by a caller at the same time as the other     *)
(* caller's handler, one access to the stores per step:                    *)
(*   cp_lookup   user_repo.get(user_id), raise when there is no such user  *)
(*   cp_create   place_facade.create_place(place_data)                     *)
(*   cp_read     transactional manager: the commit of the new place has    *)
(*               expired the loaded user, so "user.places" loads the list  *)
(*               as it is stored now and the caller keeps that copy        *)
(*   cp_write    transactional manager: user.places = user.places +        *)
(*               [place_id] on the copy, then the commit writes the whole  *)
(*               list; whole-object manager: append to the list of the     *)
(*               stored user, then user_repo.update                        *)
(* A caller sends a well-formed payload; its title is all that differs.    *)
(***************************************************************************)
cp_lookup(c, user_id, title) ==
    /\ idle
    /\ callers[c].pc = "idle"
    /\ title \in HeldTitles \cup FirstFree([n \in 1..MaxPlaces |-> Title(n)], HeldTitles)
    /\ callers' = [callers EXCEPT ![c] =
            IF ~repo_has(users, user_id)
            THEN [@ EXCEPT !.pc = "done", !.user = user_id, !.res = "NotFound"]
            ELSE [@ EXCEPT !.pc = "create", !.user = user_id, !.title = title]]
    /\ UNCHANGED <<backend, users, places, reviews, amenities, ids, call, last, interrupted>>
    /\ UNCHANGED entity
    /\ files' = FilesAfter

cp_create(c) ==
    /\ callers[c].pc = "create"
    /\ ids.p < MaxPlaces
    /\ LET r == PlaceFacade_create_place(GoodPlace(callers[c].title), callers[c].user) IN
       /\ places' = r.repo
       /\ IF r.res # "ok"
          THEN /\ callers' = [callers EXCEPT ![c] = [@ EXCEPT !.pc = "done", !.res = r.res]]
               /\ UNCHANGED ids
          ELSE /\ callers' = [callers EXCEPT ![c] =
                      [@ EXCEPT !.pc = IF backend = "whole" THEN "write" ELSE "read",
                                !.place = r.id]]
               /\ ids' = [ids EXCEPT !.p = @ + 1]
    /\ UNCHANGED <<backend, users, reviews, amenities, call, last, interrupted>>
    /\ UNCHANGED entity
    /\ files' = FilesAfter

cp_read(c) ==
    /\ callers[c].pc = "read"
    /\ callers' = [callers EXCEPT ![c] =
            [@ EXCEPT !.pc = "write",
                      !.local = IF repo_has(users, callers[c].user)
                                THEN users[callers[c].user].places
                                ELSE <<>>]]
    /\ UNCHANGED <<backend, users, places, reviews, amenities, ids, call, last, interrupted>>
    /\ UNCHANGED entity
    /\ files' = FilesAfter

\* cp_write that writes the list without the new place id.
cp_write_stale(c) ==
    /\ callers[c].pc = "write"
    /\ users' = repo_update(users, callers[c].user,
            [users[callers[c].user] EXCEPT !.places =
                 IF backend = "whole" THEN @ ELSE callers[c].local])
    /\ callers' = [o \in Callers |->
            IF o = c
            THEN [callers[c] EXCEPT !.pc = "done", !.res = "ok", !.local = <<>>,
                                    !.wrote_last = TRUE]
            ELSE [callers[o] EXCEPT !.wrote_last = FALSE]]
    /\ UNCHANGED <<backend, places, reviews, amenities, ids, call, last, interrupted>>
    /\ UNCHANGED entity
    /\ files' = FilesAfter

cp_write(c) ==
    /\ callers[c].pc = "write"
    /\ users' = repo_update(users, callers[c].user,
            [users[callers[c].user] EXCEPT !.places =
                 PlacesWithNew(IF backend = "whole" THEN @ ELSE callers[c].local,
                               callers[c].place)])
    /\ callers' = [o \in Callers |->
            IF o = c
            THEN [callers[c] EXCEPT !.pc = "done", !.res = "ok", !.local = <<>>,
                                    !.wrote_last = TRUE]
            ELSE [callers[o] EXCEPT !.wrote_last = FALSE]]
    /\ UNCHANGED <<backend, places, reviews, amenities, ids, call, last, interrupted>>
    /\ UNCHANGED entity
    /\ files' = FilesAfter

\* The owner's list left as it was: the place id stays listed.
PlacesWithout_kept(user_places, place_id) == user_places

(***************************************************************************)
(* delete_place_from_owner_place_list.  The whole-object manager raises    *)
(* when the user is absent or does not list the place; the transactional   *)
(* manager catches that ValueError, prints it and returns normally.        *)
(***************************************************************************)
PlacesWithout(user_places, place_id) ==
    IF backend = "whole"
    THEN ListRemove(user_places, place_id)
    ELSE ListWithout(user_places, place_id)

\* The error of either manager propagates to the caller.
AlwaysRaised(kind) == kind

SwallowedOrRaised(kind) == IF backend = "whole" THEN kind ELSE "ok"

\* What delete_place_from_owner_place_list of the manager of backend b yields
\* when it is called in the current state: its outcome and the users and
\* places it leaves.
delete_place_from_owner_place_list_of(b, place_id, user_id) ==
    IF ~repo_has(users, user_id) \/ ~Contains(users[user_id].places, place_id)
    THEN [res |-> IF b = "whole" THEN "NotFound" ELSE "ok",
          users |-> users, places |-> places]
    ELSE [res |-> "ok",
          users |-> repo_update(users, user_id,
                       [users[user_id] EXCEPT !.places =
                           IF b = "whole" THEN ListRemove(@, place_id)
                                          ELSE ListWithout(@, place_id)]),
          places |-> repo_delete(places, place_id)]

\* What a call of delete_place_from_owner_place_list leaves in last: its
\* outcome, whether the user listed the place when the call was made, for a
\* place that was listed whether the user lists it no more and whether the
\* place is stored no more, whether the call deleted the place, whether it
\* wrote to the users or the places, and whether the reviews are as they were.
DeletePlaceResult(place_id, user_id, res, done) ==
    [op |-> "delete_place_from_owner_place_list", res |-> res, done |-> done,
     listed |-> repo_has(users, user_id) /\ Contains(users[user_id].places, place_id),
     unlisted |-> /\ repo_has(users, user_id) /\ Contains(users[user_id].places, place_id)
                  /\ repo_has(users', user_id)
                  /\ ~Contains(users'[user_id].places, place_id),
     deleted |-> /\ repo_has(users, user_id) /\ Contains(users[user_id].places, place_id)
                 /\ ~repo_has(places', place_id),
     place_deleted |-> repo_has(places, place_id) /\ ~repo_has(places', place_id),
     changed |-> <<users, places>>' # <<users, places>>,
     reviews_kept |-> reviews' = reviews]

\* delete_place_from_owner_place_list that deletes the reviews of the place
\* with the place.
delete_place_from_owner_place_list_with_reviews(place_id, user_id) ==
    /\ idle
    /\ interrupted' = "none"
    /\ UNCHANGED callers
    /\ UNCHANGED <<backend, amenities, ids, call>>
    /\ IF ~repo_has(users, user_id) \/ ~Contains(users[user_id].places, place_id)
       THEN /\ UNCHANGED <<users, places, reviews>>
            /\ last' = DeletePlaceResult(place_id, user_id,
                                         SwallowedOrRaised("NotFound"), FALSE)
       ELSE /\ users' = repo_update(users, user_id,
                   [users[user_id] EXCEPT !.places = PlacesWithout(@, place_id)])
            /\ places' = repo_delete(places, place_id)
            /\ reviews' = [r \in {x \in DOMAIN reviews : reviews[x].place_id # place_id}
                              |-> reviews[r]]
            /\ last' = DeletePlaceResult(place_id, user_id, "ok", TRUE)
    /\ UNCHANGED entity
    /\ files' = FilesAfter

delete_place_from_owner_place_list(place_id, user_id) ==
    /\ idle
    /\ interrupted' = "none"
    /\ UNCHANGED callers
    /\ UNCHANGED <<backend, reviews, amenities, ids, call>>
    /\ IF ~repo_has(users, user_id) \/ ~Contains(users[user_id].places, place_id)
       THEN /\ UNCHANGED <<users, places>>
            /\ last' = DeletePlaceResult(place_id, user_id,
                                         SwallowedOrRaised("NotFound"), FALSE)
       ELSE /\ users' = repo_update(users, user_id,
                   [users[user_id] EXCEPT !.places = PlacesWithout(@, place_id)])
            /\ places' = repo_delete(places, place_id)
            /\ last' = DeletePlaceResult(place_id, user_id, "ok", TRUE)
    /\ UNCHANGED entity
    /\ files' = FilesAfter

(***************************************************************************)
(* ReviewFacade.create_review: a fresh review id is never held already, so *)
(* the lookup by id finds nothing; validation decides.  Of a stored review *)
(* the relations read the id, place_id and user_id; the cached names, text *)
(* and rating are written here once and never read by the managers.        *)
(***************************************************************************)
\* ReviewFacade.create_review without the validation: whatever is handed in
\* is stored.
ReviewFacade_create_review_unvalidated(review_data) ==
    [res |-> "ok", id |-> ReviewId(ids.r + 1),
     repo |-> repo_add(reviews, ReviewId(ids.r + 1),
                       [id |-> ReviewId(ids.r + 1),
                        rating |-> review_data.rating,
                        place_id |-> review_data.place_id,
                        user_id |-> review_data.user_id])]

ReviewFacade_create_review(review_data) ==
    IF get_by_attribute(reviews, "id", ReviewId(ids.r + 1)) # {}
    THEN [res |-> "Conflict", repo |-> reviews]
    ELSE IF ~Review_is_valid(review_data)
    THEN [res |-> "Validation", repo |-> reviews]
    ELSE [res |-> "ok", id |-> ReviewId(ids.r + 1),
          repo |-> repo_add(reviews, ReviewId(ids.r + 1),
                            [id |-> ReviewId(ids.r + 1),
                             rating |-> review_data.rating,
                             place_id |-> review_data.place_id,
                             user_id |-> review_data.user_id])]

\* The payload handed on as the caller sent it: its own place_id and user_id
\* keys stay.
review_data_as_sent(d, place_id, user_id) == d

\* create_review_for_place sets review_data["place_id"] and ["user_id"] to its
\* arguments before it delegates, whatever the payload held under these keys.
review_data_stamped(d, place_id, user_id) ==
    [d EXCEPT !.place_id = place_id, !.user_id = user_id]

\* The place's list left as it was: the new review id is never listed.
ReviewsWithNew_unlisted(place_reviews, review_id) == place_reviews

(***************************************************************************)
(* create_review_for_place, both managers.                                 *)
(***************************************************************************)
ReviewsWithNew(place_reviews, review_id) ==
    IF backend = "whole"
    THEN Append(place_reviews, review_id)
    ELSE IF ~Contains(place_reviews, review_id)
         THEN place_reviews \o <<review_id>>
         ELSE place_reviews

\* What a call of create_review_for_place leaves in last: its outcome, what
\* the call met (pre: a place or user that is "absent", else data that is
\* "invalid", else "fine"), whether it wrote to the places or the reviews, and
\* for a normal return the place, the user and the id of the review returned.
CreateReviewResult(place_id, user_id, d, res) ==
    [op |-> "create_review_for_place", res |-> res,
     pre |-> IF ~repo_has(places, place_id) \/ ~repo_has(users, user_id)
             THEN "absent"
             ELSE IF ~Review_is_valid(review_data_stamped(d, place_id, user_id))
             THEN "invalid"
             ELSE "fine",
     changed |-> <<places, reviews>>' # <<places, reviews>>,
     place |-> IF res = "ok" THEN place_id ELSE "-",
     user |-> IF res = "ok" THEN user_id ELSE "-",
     ret |-> IF res = "ok" THEN ReviewId(ids.r + 1) ELSE "-"]

create_review_for_place(place_id, user_id, d) ==
    /\ idle
    /\ ids.r < MaxReviews
    /\ interrupted' = "none"
    /\ UNCHANGED callers
    /\ UNCHANGED <<backend, users, amenities, call>>
    /\ IF ~repo_has(places, place_id) \/ ~repo_has(users, user_id)
       THEN /\ UNCHANGED <<places, reviews, ids>>
            /\ last' = CreateReviewResult(place_id, user_id, d, "NotFound")
       ELSE LET r == ReviewFacade_create_review(review_data_stamped(d, place_id, user_id)) IN
            IF r.res # "ok"
            THEN /\ UNCHANGED <<places, reviews, ids>>
                 /\ last' = CreateReviewResult(place_id, user_id, d, r.res)
            ELSE /\ reviews' = r.repo
                 /\ ids' = [ids EXCEPT !.r = @ + 1]
                 /\ places' = repo_update(places, place_id,
                        [places[place_id] EXCEPT !.reviews = ReviewsWithNew(@, r.id)])
                 /\ last' = CreateReviewResult(place_id, user_id, d, "ok")
    /\ UNCHANGED entity
    /\ files' = FilesAfter

(***************************************************************************)
(* create_review_for_place run by a caller while a deletion of the place   *)
(* may be running, one access to the stores per step:                      *)
(*   cr_lookup   place_repo.get(place_id), user_repo.get(user_id), raise   *)
(*               when one of them is not stored                            *)
(*   cr_create   review_facade.create_review(review_data)                  *)
(*   cr_append   whole-object manager: append to the list of the place     *)
(*               object the caller holds and place_repo.update, which does *)
(*               nothing when the place is stored no more; transactional   *)
(*               manager: the commit of the review has expired the loaded  *)
(*               place, "place.reviews" loads the row again, which fails   *)
(*               when the row is deleted, else the list is rebound and     *)
(*               committed                                                 *)
(* The caller sends a well-formed review.                                  *)
(***************************************************************************)
cr_lookup(c, place_id, user_id) ==
    /\ callers[c].pc = "idle"
    /\ ids.r + Cardinality({o \in Callers : Running(o)}) < MaxReviews
    /\ callers' = [callers EXCEPT ![c] =
            IF ~repo_has(places, place_id) \/ ~repo_has(users, user_id)
            THEN [@ EXCEPT !.pc = "done", !.place = place_id, !.user = user_id,
                           !.res = "NotFound"]
            ELSE [@ EXCEPT !.pc = "cr_create", !.place = place_id, !.user = user_id]]
    /\ UNCHANGED <<backend, users, places, reviews, amenities, ids, call, last, interrupted>>
    /\ UNCHANGED entity
    /\ files' = FilesAfter

cr_create(c) ==
    /\ callers[c].pc = "cr_create"
    /\ LET r == ReviewFacade_create_review(
                   review_data_stamped(GoodReview, callers[c].place, callers[c].user)) IN
       /\ reviews' = r.repo
       /\ IF r.res # "ok"
          THEN /\ callers' = [callers EXCEPT ![c] = [@ EXCEPT !.pc = "done", !.res = r.res]]
               /\ UNCHANGED ids
          ELSE /\ callers' = [callers EXCEPT ![c] =
                      [@ EXCEPT !.pc = "cr_append", !.local = <<r.id>>]]
               /\ ids' = [ids EXCEPT !.r = @ + 1]
    /\ UNCHANGED <<backend, users, places, amenities, call, last, interrupted>>
    /\ UNCHANGED entity
    /\ files' = FilesAfter

cr_append(c) ==
    /\ callers[c].pc = "cr_append"
    /\ LET place_id == callers[c].place
           review_id == callers[c].local[1] IN
       IF repo_has(places, place_id)
       THEN /\ places' = repo_update(places, place_id,
                   [places[place_id] EXCEPT !.reviews = ReviewsWithNew(@, review_id)])
            /\ callers' = [callers EXCEPT ![c] = [@ EXCEPT !.pc = "done", !.res = "ok"]]
       ELSE /\ UNCHANGED places
            /\ callers' = [callers EXCEPT ![c] =
                   [@ EXCEPT !.pc = "done",
                             !.res = IF backend = "whole" THEN "ok" ELSE "Internal"]]
    /\ UNCHANGED <<backend, users, reviews, amenities, ids, call, last, interrupted>>
    /\ UNCHANGED entity
    /\ files' = FilesAfter

\* The place's list left as it was: the review id stays listed.
ReviewsWithout_kept(place_reviews, review_id) == place_reviews

(***************************************************************************)
(* delete_review_from_place_list, both managers.                           *)
(***************************************************************************)
ReviewsWithout(place_reviews, review_id) ==
    IF backend = "whole"
    THEN ListRemove(place_reviews, review_id)
    ELSE ListWithout(place_reviews, review_id)

\* What a call of delete_review_from_place_list leaves in last: its outcome,
\* whether the place listed the review when the call was made, whether the
\* call wrote to the places or the reviews, and whether after a normal return
\* the review is gone from the place's list and from the Review repository.
DeleteReviewResult(review_id, place_id, res) ==
    [op |-> "delete_review_from_place_list", res |-> res,
     place |-> IF res = "ok" THEN place_id ELSE "-",
     listed |-> repo_has(places, place_id) /\ Contains(places[place_id].reviews, review_id),
     changed |-> <<places, reviews>>' # <<places, reviews>>,
     gone |-> /\ res = "ok"
              /\ ~Contains(places'[place_id].reviews, review_id)
              /\ ~repo_has(reviews', review_id)]

delete_review_from_place_list(review_id, place_id) ==
    /\ idle
    /\ interrupted' = "none"
    /\ UNCHANGED callers
    /\ UNCHANGED <<backend, users, amenities, ids, call>>
    /\ IF ~repo_has(places, place_id) \/ ~Contains(places[place_id].reviews, review_id)
       THEN /\ UNCHANGED <<places, reviews>>
            /\ last' = DeleteReviewResult(review_id, place_id, "NotFound")
       ELSE /\ places' = repo_update(places, place_id,
                   [places[place_id] EXCEPT !.reviews = ReviewsWithout(@, review_id)])
            /\ reviews' = repo_delete(reviews, review_id)
            /\ last' = DeleteReviewResult(review_id, place_id, "ok")
    /\ UNCHANGED entity
    /\ files' = FilesAfter

(***************************************************************************)
(* delete_review_from_place_list of the whole-object manager, statement by *)
(* statement: reviews.remove changes the list of the held place, which no  *)
(* file shows yet; place_repo.update then saves the places; review_repo    *)
(* .delete deletes the review and saves the reviews if the id is held.     *)
(***************************************************************************)
dr_remove(review_id, place_id) ==
    /\ idle
    /\ backend = "whole"
    /\ interrupted' = "none"
    /\ UNCHANGED callers
    /\ UNCHANGED <<backend, users, reviews, amenities, ids, files, entity>>
    /\ IF ~repo_has(places, place_id) \/ ~Contains(places[place_id].reviews, review_id)
       THEN /\ UNCHANGED <<places, call>>
            /\ last' = DeleteReviewResult(review_id, place_id, "NotFound")
       ELSE /\ places' = repo_update(places, place_id,
                   [places[place_id] EXCEPT !.reviews = ListRemove(@, review_id)])
            /\ call' = [NoCascade EXCEPT !.pc = "dr_update",
                                         !.top = "delete_review_from_place_list",
                                         !.place = place_id, !.rlist = <<review_id>>]
            /\ UNCHANGED last

dr_update ==
    /\ call.pc = "dr_update"
    /\ files' = [files EXCEPT !.places = save_to_file(@, places, "place")]
    /\ call' = [call EXCEPT !.pc = "dr_delete"]
    /\ UNCHANGED <<backend, users, places, reviews, amenities, ids, last, interrupted,
                   callers, entity>>

dr_delete ==
    /\ call.pc = "dr_delete"
    /\ reviews' = repo_delete(reviews, call.rlist[1])
    /\ files' = IF repo_has(reviews, call.rlist[1])
                THEN [files EXCEPT !.reviews = save_to_file(@, reviews', "review")]
                ELSE files
    /\ call' = NoCascade
    /\ last' = [op |-> "delete_review_from_place_list", res |-> "ok", place |-> call.place,
                listed |-> TRUE, changed |-> TRUE,
                gone |-> /\ ~Contains(places[call.place].reviews, call.rlist[1])
                         /\ ~repo_has(reviews', call.rlist[1])]
    /\ UNCHANGED <<backend, users, places, amenities, ids, interrupted, callers, entity>>

\* AmenityFacade.create_amenity with the amenity added before it is
\* validated: a call that raises the Validation error has written already.
AmenityFacade_create_amenity_added_first(name) ==
    IF get_by_attribute(amenities, "name", name) # {}
    THEN [res |-> "Conflict", repo |-> amenities]
    ELSE [res |-> IF Amenity_is_valid(name) THEN "ok" ELSE "Validation",
          id |-> AmenityId(ids.a + 1),
          repo |-> repo_add(amenities, AmenityId(ids.a + 1), [name |-> name])]

(***************************************************************************)
(* AmenityFacade.create_amenity                                            *)
(***************************************************************************)
AmenityFacade_create_amenity(name) ==
    IF get_by_attribute(amenities, "name", name) # {}
    THEN [res |-> "Conflict", repo |-> amenities]
    ELSE IF ~Amenity_is_valid(name)
    THEN [res |-> "Validation", repo |-> amenities]
    ELSE [res |-> "ok", id |-> AmenityId(ids.a + 1),
          repo |-> repo_add(amenities, AmenityId(ids.a + 1), [name |-> name])]

\* What a call of add_amenity_to_a_place leaves in last: its outcome, whether
\* the place listed the name when the call was made, whether the name has 1
\* to 50 characters, whether the name was appended to the list of the place,
\* and whether the call wrote to the places or to the Amenity repository.
AddAmenityResult(place_id, name, res) ==
    [op |-> "add_amenity_to_a_place", res |-> res,
     listed |-> repo_has(places, place_id) /\ Contains(places[place_id].amenities, name),
     fits |-> 0 < Len(name) /\ Len(name) <= 50,
     appended |-> /\ repo_has(places, place_id)
                  /\ places'[place_id].amenities = Append(places[place_id].amenities, name),
     changed |-> <<places, amenities>>' # <<places, amenities>>]

\* add_amenity_to_a_place without the membership test: the name is appended
\* whether or not the place lists it already.
add_amenity_unchecked(place_id, name) ==
    IF ~repo_has(places, place_id)
    THEN /\ UNCHANGED <<places, amenities, ids>>
         /\ last' = AddAmenityResult(place_id, name, "NotFound")
    ELSE /\ places' = repo_update(places, place_id,
                [places[place_id] EXCEPT !.amenities = Append(@, name)])
         /\ UNCHANGED <<amenities, ids>>
         /\ last' = AddAmenityResult(place_id, name, "ok")

(***************************************************************************)
(* add_amenity_to_a_place of FacadeRelationManager.  When an Amenity with  *)
(* the name exists already, the local variable amenity is never bound and  *)
(* the final return raises UnboundLocalError, after the place was written. *)
(***************************************************************************)
add_amenity_whole(place_id, name) ==
    LET existing_amenity == get_by_attribute(amenities, "name", name) IN
    IF ~repo_has(places, place_id)
    THEN /\ UNCHANGED <<places, amenities, ids>>
         /\ last' = AddAmenityResult(place_id, name, "NotFound")
    ELSE IF Contains(places[place_id].amenities, name)
    THEN /\ UNCHANGED <<places, amenities, ids>>
         /\ last' = AddAmenityResult(place_id, name, "Conflict")
    ELSE IF ~(0 < Len(name) /\ Len(name) < 50)
    THEN /\ UNCHANGED <<places, amenities, ids>>
         /\ last' = AddAmenityResult(place_id, name, "Validation")
    ELSE /\ places' = repo_update(places, place_id,
                [places[place_id] EXCEPT !.amenities = Append(@, name)])
         /\ IF existing_amenity = {}
            THEN LET r == AmenityFacade_create_amenity(name) IN
                 /\ amenities' = r.repo
                 /\ ids' = IF r.res = "ok" THEN [ids EXCEPT !.a = @ + 1] ELSE ids
                 /\ last' = AddAmenityResult(place_id, name, r.res)
            ELSE /\ UNCHANGED <<amenities, ids>>
                 /\ last' = AddAmenityResult(place_id, name, "Internal")

(***************************************************************************)
(* add_amenity_to_a_place of SQLAlchemyFacadeRelationManager: no length    *)
(* check of its own; the place is committed before the Amenity is created. *)
(***************************************************************************)
add_amenity_sql(place_id, name) ==
    LET amenity == get_by_attribute(amenities, "name", name) IN
    IF ~repo_has(places, place_id)
    THEN /\ UNCHANGED <<places, amenities, ids>>
         /\ last' = AddAmenityResult(place_id, name, "NotFound")
    ELSE IF ~Contains(places[place_id].amenities, name)
    THEN /\ places' = repo_update(places, place_id,
                [places[place_id] EXCEPT !.amenities = @ \o <<name>>])
         /\ IF amenity = {}
            THEN LET r == AmenityFacade_create_amenity(name) IN
                 /\ amenities' = r.repo
                 /\ ids' = IF r.res = "ok" THEN [ids EXCEPT !.a = @ + 1] ELSE ids
                 /\ last' = AddAmenityResult(place_id, name, r.res)
            ELSE /\ UNCHANGED <<amenities, ids>>
                 /\ last' = AddAmenityResult(place_id, name, "ok")
    ELSE /\ UNCHANGED <<places, amenities, ids>>
         /\ last' = AddAmenityResult(place_id, name, "Conflict")

add_amenity_to_a_place(place_id, name) ==
    /\ idle
    /\ ids.a < MaxAmenities
    /\ (repo_has(places, place_id) /\ ~Contains(places[place_id].amenities, name))
          => Len(places[place_id].amenities) < MaxListed
    /\ interrupted' = "none"
    /\ UNCHANGED callers
    /\ UNCHANGED <<backend, users, reviews, call>>
    /\ IF backend = "whole"
       THEN add_amenity_whole(place_id, name)
       ELSE add_amenity_sql(place_id, name)
    /\ UNCHANGED entity
    /\ files' = FilesAfter

(***************************************************************************)
(* add_amenity_to_a_place run by a caller at the same time as the other    *)
(* caller's, one access to the stores per step:                            *)
(*   aa_lookup   place_repo.get(place_id) and                              *)
(*               amenity_repo.get_by_attribute("name", amenity_name); the  *)
(*               caller keeps what the lookup found; raise when there is   *)
(*               no such place                                             *)
(*   aa_append   the membership test (and the length test of the          *)
(*               whole-object manager), the append and the write of the    *)
(*               place                                                     *)
(*   aa_check    when the lookup had found nothing: the lookup by name and *)
(*               the validation of AmenityFacade.create_amenity; else the  *)
(*               return (UnboundLocalError in the whole-object manager)    *)
(*   aa_add      amenity_repo.add of create_amenity, and the return        *)
(* The two callers name different places, so each reads and writes a list  *)
(* that the other never touches.                                           *)
(***************************************************************************)
aa_lookup(c, place_id, name) ==
    /\ idle
    /\ callers[c].pc = "idle"
    /\ \A o \in Callers \ {c} : Running(o) => callers[o].place # place_id
    /\ ids.a + Cardinality({o \in Callers : Running(o)}) < MaxAmenities
    /\ (repo_has(places, place_id) /\ ~Contains(places[place_id].amenities, name))
          => Len(places[place_id].amenities) < MaxListed
    /\ callers' = [callers EXCEPT ![c] =
            IF ~repo_has(places, place_id)
            THEN [@ EXCEPT !.pc = "done", !.place = place_id, !.name = name,
                           !.res = "NotFound"]
            ELSE [@ EXCEPT !.pc = "append", !.place = place_id, !.name = name,
                           !.existing = get_by_attribute(amenities, "name", name) # {}]]
    /\ UNCHANGED <<backend, users, places, reviews, amenities, ids, call, last, interrupted>>
    /\ UNCHANGED entity
    /\ files' = FilesAfter

aa_append(c) ==
    /\ callers[c].pc = "append"
    /\ LET place_id == callers[c].place
           name == callers[c].name IN
       IF Contains(places[place_id].amenities, name)
       THEN /\ callers' = [callers EXCEPT ![c] = [@ EXCEPT !.pc = "done", !.res = "Conflict"]]
            /\ UNCHANGED places
       ELSE IF backend = "whole" /\ ~(0 < Len(name) /\ Len(name) < 50)
       THEN /\ callers' = [callers EXCEPT ![c] = [@ EXCEPT !.pc = "done", !.res = "Validation"]]
            /\ UNCHANGED places
       ELSE /\ places' = repo_update(places, place_id,
                   [places[place_id] EXCEPT !.amenities = Append(@, name)])
            /\ callers' = [callers EXCEPT ![c] = [@ EXCEPT !.pc = "check"]]
    /\ UNCHANGED <<backend, users, reviews, amenities, ids, call, last, interrupted>>
    /\ UNCHANGED entity
    /\ files' = FilesAfter

aa_check(c) ==
    /\ callers[c].pc = "check"
    /\ callers' = [callers EXCEPT ![c] =
            IF callers[c].existing
            THEN [@ EXCEPT !.pc = "done",
                           !.res = IF backend = "whole" THEN "Internal" ELSE "ok"]
            ELSE IF get_by_attribute(amenities, "name", callers[c].name) # {}
            THEN [@ EXCEPT !.pc = "done", !.res = "Conflict"]
            ELSE IF ~Amenity_is_valid(callers[c].name)
            THEN [@ EXCEPT !.pc = "done", !.res = "Validation"]
            ELSE [@ EXCEPT !.pc = "add"]]
    /\ UNCHANGED <<backend, users, places, reviews, amenities, ids, call, last, interrupted>>
    /\ UNCHANGED entity
    /\ files' = FilesAfter

aa_add(c) ==
    /\ callers[c].pc = "add"
    /\ amenities' = repo_add(amenities, AmenityId(ids.a + 1), [name |-> callers[c].name])
    /\ ids' = [ids EXCEPT !.a = @ + 1]
    /\ callers' = [callers EXCEPT ![c] = [@ EXCEPT !.pc = "done", !.res = "ok"]]
    /\ UNCHANGED <<backend, users, places, reviews, call, last, interrupted>>
    /\ UNCHANGED entity
    /\ files' = FilesAfter

(***************************************************************************)
(* delete_amenity_from_place_list.  The whole-object manager ends with     *)
(* amenity_repo.delete(amenity_name): the name is used as a repository id. *)
(***************************************************************************)
AmenitiesWithout(place_amenities, name) ==
    IF backend = "whole"
    THEN ListRemove(place_amenities, name)
    ELSE ListWithout(place_amenities, name)

\* What a call of delete_amenity_from_place_list leaves in last: its outcome,
\* whether the place listed the name when the call was made, and whether the
\* call wrote to the places or to the Amenity repository.
DeleteAmenityResult(place_id, name, res) ==
    [op |-> "delete_amenity_from_place_list", res |-> res,
     listed |-> repo_has(places, place_id) /\ Contains(places[place_id].amenities, name),
     changed |-> <<places, amenities>>' # <<places, amenities>>]

\* delete_amenity_from_place_list without the membership test: the place is
\* written and the call returns whether or not the name was listed.
delete_amenity_unchecked(name, place_id) ==
    /\ idle
    /\ interrupted' = "none"
    /\ UNCHANGED callers
    /\ UNCHANGED <<backend, users, reviews, ids, call>>
    /\ IF ~repo_has(places, place_id)
       THEN /\ UNCHANGED <<places, amenities>>
            /\ last' = DeleteAmenityResult(place_id, name, "NotFound")
       ELSE /\ places' = repo_update(places, place_id,
                   [places[place_id] EXCEPT !.amenities = ListWithout(@, name)])
            /\ amenities' = IF backend = "whole"
                            THEN repo_delete(amenities, name)
                            ELSE amenities
            /\ last' = DeleteAmenityResult(place_id, name, "ok")
    /\ UNCHANGED entity
    /\ files' = FilesAfter

delete_amenity_from_place_list(name, place_id) ==
    /\ idle
    /\ interrupted' = "none"
    /\ UNCHANGED callers
    /\ UNCHANGED <<backend, users, reviews, ids, call>>
    /\ IF ~repo_has(places, place_id) \/ ~Contains(places[place_id].amenities, name)
       THEN /\ UNCHANGED <<places, amenities>>
            /\ last' = DeleteAmenityResult(place_id, name, "NotFound")
       ELSE /\ places' = repo_update(places, place_id,
                   [places[place_id] EXCEPT !.amenities = AmenitiesWithout(@, name)])
            /\ amenities' = IF backend = "whole"
                            THEN repo_delete(amenities, name)
                            ELSE amenities
            /\ last' = DeleteAmenityResult(place_id, name, "ok")
    /\ UNCHANGED entity
    /\ files' = FilesAfter

(***************************************************************************)
(* Cascading deletions, one store write per step.  call holds the position *)
(* of the running cascade:                                                 *)
(*   top   the handler the caller invoked                                  *)
(*   user, uidx, ulist   delete_user_and_associated_instances: the user,   *)
(*         the position of the for loop in places_ids_list, and the list   *)
(*         object the loop iterates                                        *)
(*   place, ridx, rlist  delete_place_and_associated_instances: the place, *)
(*         the position of the loop over reviews_ids_list, and that list   *)
(* An in-memory / in-file repository hands out the stored object itself,   *)
(* so places_ids_list IS the stored user's list and changes under the loop *)
(* (ulist is then unused and the live list is read); the transactional     *)
(* manager rebinds user.places to a new list, so its loop keeps the list   *)
(* it started with.                                                        *)
(* The remaining fields record the state at the start of the call, for the *)
(* statements about it: start_places, start_reviewed (the places of        *)
(* start_places that held at least one review), owned (the places whose    *)
(* owner_id was the user), invoked (the places the cascade was invoked on),*)
(* pre_empty (the place existed, listed by its owner, with no review),     *)
(* retry (the call follows an interruption of the same deletion), outside  *)
(* (the other users, the places of other owners, the reviews of those      *)
(* places and the Amenity records).                                        *)
(***************************************************************************)
\* A loop over the ids of every review ever made, not over those of the place.
reviews_ids_list_of_all == [i \in 1..ids.r |-> ReviewId(i)]

places_ids_list == IF backend = "whole" THEN users[call.user].places ELSE call.ulist

reviews_ids_list == IF backend = "whole" THEN places[call.place].reviews ELSE call.rlist

\* The users other than user_id, the places whose owner_id is not user_id,
\* the reviews attached to such a place, and the Amenity records.
Outside(user_id) ==
    LET others == {p \in DOMAIN places : places[p].owner_id # user_id} IN
    [users |-> [u \in DOMAIN users \ {user_id} |-> users[u]],
     places |-> [p \in others |-> places[p]],
     reviews |-> [r \in {x \in DOMAIN reviews : reviews[x].place_id \in others} |-> reviews[r]],
     amenities |-> amenities]

\* Whether everything of o is stored as it was when the call was made, once
\* the step that ends the call has written.
OutsideKept(o) ==
    /\ \A u \in DOMAIN o.users : repo_has(users', u) /\ users'[u] = o.users[u]
    /\ \A p \in DOMAIN o.places : repo_has(places', p) /\ places'[p] = o.places[p]
    /\ \A r \in DOMAIN o.reviews : repo_has(reviews', r) /\ reviews'[r] = o.reviews[r]
    /\ amenities' = o.amenities

\* The record left in last when the running cascade ends with result res.
CascadeResult(c, res) ==
    IF c.top = "delete_user"
    THEN [op |-> "delete_user_and_associated_instances", res |-> res, user |-> c.user,
          start_places |-> c.start_places, start_reviewed |-> c.start_reviewed,
          owned |-> c.owned, invoked |-> c.invoked,
          failed_at |-> IF res = "ok" THEN "-" ELSE c.place,
          outside_kept |-> OutsideKept(c.outside)]
    ELSE [op |-> "delete_place_and_associated_instances", res |-> res, place |-> c.place,
          pre_empty |-> c.pre_empty, retry |-> c.retry]

\* Steps 1 to 3 of delete_place_and_associated_instances, run in context c:
\* load the place and its owner, drop the place from the owner's list and
\* persist the owner; any failure raises out of the whole cascade.
delete_place_begin(place_id, c) ==
    LET cp == [c EXCEPT !.place = place_id] IN
    IF ~repo_has(places, place_id)
       \/ ~repo_has(users, places[place_id].owner_id)
       \/ ~Contains(users[places[place_id].owner_id].places, place_id)
    THEN /\ UNCHANGED users
         /\ last' = CascadeResult(cp, "NotFound")
         /\ call' = NoCascade
    ELSE LET user_id == places[place_id].owner_id IN
         /\ users' = repo_update(users, user_id,
                [users[user_id] EXCEPT !.places = PlacesWithout(@, place_id)])
         /\ call' = [cp EXCEPT !.pc = "dp_reviews", !.ridx = 1,
                               !.rlist = IF backend = "whole" THEN <<>>
                                         ELSE places[place_id].reviews]
         /\ last' = NoCall

delete_place_and_associated_instances(place_id) ==
    /\ idle
    /\ interrupted' = "none"
    /\ UNCHANGED callers
    /\ UNCHANGED <<backend, places, reviews, amenities, ids>>
    /\ delete_place_begin(place_id,
          [NoCascade EXCEPT
             !.top = "delete_place",
             !.pre_empty = /\ repo_has(places, place_id)
                           /\ places[place_id].reviews = <<>>
                           /\ repo_has(users, places[place_id].owner_id)
                           /\ Contains(users[places[place_id].owner_id].places, place_id),
             !.retry = (interrupted = place_id)])
    /\ UNCHANGED entity
    /\ files' = FilesAfter

\* Step 4 without its delete: the loop moves on and the review stays stored.
delete_place_review_skipped ==
    /\ call.pc = "dp_reviews"
    /\ call.ridx <= Len(reviews_ids_list)
    /\ call' = [call EXCEPT !.ridx = @ + 1]
    /\ UNCHANGED <<backend, users, places, reviews, amenities, ids, last, interrupted, callers>>
    /\ UNCHANGED entity
    /\ files' = FilesAfter

\* Step 4: review_repo.delete of the next id of reviews_ids_list.
delete_place_review ==
    /\ call.pc = "dp_reviews"
    /\ call.ridx <= Len(reviews_ids_list)
    /\ reviews' = repo_delete(reviews, reviews_ids_list[call.ridx])
    /\ call' = [call EXCEPT !.ridx = @ + 1]
    /\ UNCHANGED <<backend, users, places, amenities, ids, last, interrupted, callers>>
    /\ UNCHANGED entity
    /\ files' = FilesAfter

\* The whole-object manager raises when reviews_ids_list is empty; the
\* transactional manager goes on to delete the place.
RaisesOnNoReview == backend = "whole"

\* Step 5: place_repo.delete, then back to the caller.
delete_place_finish ==
    /\ call.pc = "dp_reviews"
    /\ call.ridx > Len(reviews_ids_list)
    /\ UNCHANGED <<backend, users, reviews, amenities, ids, interrupted, callers>>
    /\ IF RaisesOnNoReview /\ Len(reviews_ids_list) = 0
       THEN /\ UNCHANGED places
            /\ last' = CascadeResult(call, "NotFound")
            /\ call' = NoCascade
       ELSE /\ places' = repo_delete(places, call.place)
            /\ IF call.top = "delete_user"
               THEN /\ call' = [call EXCEPT !.pc = "du_loop"]
                    /\ UNCHANGED last
               ELSE /\ last' = CascadeResult(call, "ok")
                    /\ call' = NoCascade
    /\ UNCHANGED entity
    /\ files' = FilesAfter

delete_user_and_associated_instances(user_id) ==
    /\ idle
    /\ interrupted' = "none"
    /\ UNCHANGED callers
    /\ UNCHANGED <<backend, users, places, reviews, amenities, ids>>
    /\ IF ~repo_has(users, user_id)
       THEN /\ last' = CascadeResult([NoCascade EXCEPT !.top = "delete_user",
                                                       !.outside = Outside(user_id)],
                                     "NotFound")
            /\ UNCHANGED call
       ELSE /\ call' = [NoCascade EXCEPT
                   !.pc = "du_loop", !.top = "delete_user", !.user = user_id, !.uidx = 1,
                   !.ulist = IF backend = "whole" THEN <<>> ELSE users[user_id].places,
                   !.start_places = users[user_id].places,
                   !.start_reviewed = {p \in Range(users[user_id].places) :
                                         repo_has(places, p) /\ places[p].reviews # <<>>},
                   !.owned = get_by_attribute(places, "owner_id", user_id),
                   !.outside = Outside(user_id)]
            /\ last' = NoCall
    /\ UNCHANGED entity
    /\ files' = FilesAfter

\* One turn of "for place_id in places_ids_list": the list iterator yields
\* the element at its position in the list as it is now, or ends the loop;
\* after the loop the user is deleted.
delete_user_step ==
    /\ call.pc = "du_loop"
    /\ UNCHANGED <<backend, places, reviews, amenities, ids, interrupted, callers>>
    /\ IF call.uidx <= Len(places_ids_list)
       THEN delete_place_begin(places_ids_list[call.uidx],
                   [call EXCEPT !.uidx = @ + 1,
                                !.invoked = @ \cup {places_ids_list[call.uidx]}])
       ELSE /\ users' = repo_delete(users, call.user)
            /\ last' = CascadeResult(call, "ok")
            /\ call' = NoCascade
    /\ UNCHANGED entity
    /\ files' = FilesAfter

(***************************************************************************)
(* ReviewFacade.create_review called directly, as POST /reviews does with  *)
(* the place_id of the payload: the review is stored, no place is touched. *)
(***************************************************************************)
create_review(d, place_id, user_id) ==
    /\ idle
    /\ ids.r < MaxReviews
    /\ interrupted' = "none"
    /\ UNCHANGED callers
    /\ UNCHANGED <<backend, users, places, amenities, call>>
    /\ LET r == ReviewFacade_create_review(
                    [d EXCEPT !.place_id = place_id, !.user_id = user_id]) IN
       /\ reviews' = r.repo
       /\ ids' = IF r.res = "ok" THEN [ids EXCEPT !.r = @ + 1] ELSE ids
       /\ last' = [ret |-> IF r.res = "ok" THEN r.id ELSE "-"]
                      @@ FacadeCreateResult("create_review", r.res)
    /\ UNCHANGED entity
    /\ files' = FilesAfter

(***************************************************************************)
(* PlaceFacade.create_place and AmenityFacade.create_amenity called        *)
(* directly: the Place Facade stores the owner_id of the payload and does  *)
(* not look the owner up.                                                  *)
(***************************************************************************)
create_place(d, owner_id) ==
    /\ idle
    /\ ids.p < MaxPlaces
    /\ d.title \in HeldTitles \cup FirstFree([n \in 1..MaxPlaces |-> Title(n)], HeldTitles)
                  \cup {""}
    /\ interrupted' = "none"
    /\ UNCHANGED callers
    /\ UNCHANGED <<backend, users, reviews, amenities, call>>
    /\ LET r == PlaceFacade_create_place(d, owner_id) IN
       /\ places' = r.repo
       /\ ids' = IF r.res = "ok" THEN [ids EXCEPT !.p = @ + 1] ELSE ids
       /\ last' = FacadeCreateResult("create_place", r.res)
    /\ UNCHANGED entity
    /\ files' = FilesAfter

create_amenity(name) ==
    /\ idle
    /\ ids.a < MaxAmenities
    /\ interrupted' = "none"
    /\ UNCHANGED callers
    /\ UNCHANGED <<backend, users, places, reviews, call>>
    /\ LET r == AmenityFacade_create_amenity(name) IN
       /\ amenities' = r.repo
       /\ ids' = IF r.res = "ok" THEN [ids EXCEPT !.a = @ + 1] ELSE ids
       /\ last' = FacadeCreateResult("create_amenity", r.res)
    /\ UNCHANGED entity
    /\ files' = FilesAfter

(***************************************************************************)
(* PlaceFacade.delete_place called directly: the place record is deleted,  *)
(* its owner's list and its reviews are not touched.                       *)
(***************************************************************************)
\* What a delete of a Facade leaves in last: its outcome, and the repositories
\* of the other entity types as they were when the call was made.
FacadeDeleteResult(op, res, others) == [op |-> op, res |-> res, before |-> others]

\* PlaceFacade.delete_place that also takes the place off its owner's list.
delete_place_unlisting(place_id) ==
    /\ idle
    /\ interrupted' = "none"
    /\ UNCHANGED callers
    /\ UNCHANGED <<backend, reviews, amenities, ids, call>>
    /\ IF repo_has(places, place_id)
       THEN /\ places' = repo_delete(places, place_id)
            /\ users' = [u \in DOMAIN users |->
                            [users[u] EXCEPT !.places = ListWithout(@, place_id)]]
            /\ last' = FacadeDeleteResult("delete_place", "ok", <<users, reviews>>)
       ELSE /\ UNCHANGED <<users, places>>
            /\ last' = FacadeDeleteResult("delete_place", "NotFound", <<users, reviews>>)
    /\ UNCHANGED entity
    /\ files' = FilesAfter

delete_place(place_id) ==
    /\ idle
    /\ interrupted' = "none"
    /\ UNCHANGED callers
    /\ UNCHANGED <<backend, users, reviews, amenities, ids, call>>
    /\ IF repo_has(places, place_id)
       THEN /\ places' = repo_delete(places, place_id)
            /\ last' = FacadeDeleteResult("delete_place", "ok", <<users, reviews>>)
       ELSE /\ UNCHANGED places
            /\ last' = FacadeDeleteResult("delete_place", "NotFound", <<users, reviews>>)
    /\ UNCHANGED entity
    /\ files' = FilesAfter

(***************************************************************************)
(* ReviewFacade.delete_review called directly: the review record is        *)
(* deleted, the list of its place is not touched.                          *)
(***************************************************************************)
delete_review(review_id) ==
    /\ idle
    /\ interrupted' = "none"
    /\ UNCHANGED callers
    /\ UNCHANGED <<backend, users, places, amenities, ids, call>>
    /\ IF repo_has(reviews, review_id)
       THEN /\ reviews' = repo_delete(reviews, review_id)
            /\ last' = FacadeDeleteResult("delete_review", "ok", <<places>>)
       ELSE /\ UNCHANGED reviews
            /\ last' = FacadeDeleteResult("delete_review", "NotFound", <<places>>)
    /\ UNCHANGED entity
    /\ files' = FilesAfter

(***************************************************************************)
(* The updates of the User and Place Facades.  The entity is looked up, the *)
(* new key (email, title) is looked up among the stored entities and        *)
(* refused when it is held and is not the entity's own, a new object made   *)
(* of the payload is validated, and only then the repository is written.    *)
(***************************************************************************)
\* What an update leaves in last: its outcome, whether the new key was the
\* entity's own, another entity's or nobody's, whether the payload was
\* well-formed, and whether the call wrote to a repository.
FacadeUpdateResult(op, res, storage, obj_id, attr_name, attr_value, valid) ==
    [op |-> op, res |-> res,
     key |-> IF ~repo_has(storage, obj_id) THEN "absent"
             ELSE IF storage[obj_id][attr_name] = attr_value THEN "own"
             ELSE IF get_by_attribute(storage, attr_name, attr_value) # {} THEN "taken"
             ELSE "free",
     valid |-> valid,
     changed |-> <<users, places, reviews, amenities>>'
                    # <<users, places, reviews, amenities>>]

\* UserFacade.update_user without the lookup of the new email.
UserFacade_update_user_unchecked(user_id, d) ==
    IF ~repo_has(users, user_id)
    THEN [res |-> "NotFound", repo |-> users]
    ELSE IF ~User_is_valid(d)
    THEN [res |-> "Validation", repo |-> users]
    ELSE [res |-> "ok",
          repo |-> repo_update(users, user_id, [users[user_id] EXCEPT !.email = d.email])]

UserFacade_update_user(user_id, d) ==
    IF ~repo_has(users, user_id)
    THEN [res |-> "NotFound", repo |-> users]
    ELSE IF get_by_attribute(users, "email", d.email) # {} /\ d.email # users[user_id].email
    THEN [res |-> "Conflict", repo |-> users]
    ELSE IF ~User_is_valid(d)
    THEN [res |-> "Validation", repo |-> users]
    ELSE [res |-> "ok",
          repo |-> repo_update(users, user_id, [users[user_id] EXCEPT !.email = d.email])]

update_user(user_id, d) ==
    /\ idle
    /\ interrupted' = "none"
    /\ UNCHANGED callers
    /\ UNCHANGED <<backend, places, reviews, amenities, ids, call>>
    /\ users' = UserFacade_update_user(user_id, d).repo
    /\ last' = FacadeUpdateResult("update_user", UserFacade_update_user(user_id, d).res,
                                  users, user_id, "email", d.email, User_is_valid(d))
    /\ UNCHANGED entity
    /\ files' = FilesAfter

PlaceFacade_update_place(place_id, d) ==
    IF ~repo_has(places, place_id)
    THEN [res |-> "NotFound", repo |-> places]
    ELSE IF get_by_attribute(places, "title", d.title) # {} /\ d.title # places[place_id].title
    THEN [res |-> "Conflict", repo |-> places]
    ELSE IF ~Place_is_valid(d)
    THEN [res |-> "Validation", repo |-> places]
    ELSE [res |-> "ok",
          repo |-> repo_update(places, place_id, [places[place_id] EXCEPT !.title = d.title, !.price = d.price,
                                           !.latitude = d.latitude,
                                           !.longitude = d.longitude])]

update_place(place_id, d) ==
    /\ idle
    /\ interrupted' = "none"
    /\ UNCHANGED callers
    /\ UNCHANGED <<backend, users, reviews, amenities, ids, call>>
    /\ places' = PlaceFacade_update_place(place_id, d).repo
    /\ last' = FacadeUpdateResult("update_place", PlaceFacade_update_place(place_id, d).res,
                                  places, place_id, "title", d.title, Place_is_valid(d))
    /\ UNCHANGED entity
    /\ files' = FilesAfter

(***************************************************************************)
(* ReviewFacade.update_review: the review is looked up, a Review made of   *)
(* the new text and rating and of the stored ids is validated, and the     *)
(* repository is written.                                                  *)
(***************************************************************************)
ReviewFacade_update_review(review_id, d) ==
    IF ~repo_has(reviews, review_id)
    THEN [res |-> "NotFound", repo |-> reviews]
    ELSE IF ~Review_is_valid([d EXCEPT !.place_id = reviews[review_id].place_id,
                                       !.user_id = reviews[review_id].user_id])
    THEN [res |-> "Validation", repo |-> reviews]
    ELSE [res |-> "ok",
          repo |-> repo_update(reviews, review_id,
                               [reviews[review_id] EXCEPT !.rating = d.rating])]

update_review(review_id, d) ==
    /\ idle
    /\ interrupted' = "none"
    /\ UNCHANGED callers
    /\ UNCHANGED <<backend, users, places, amenities, ids, call>>
    /\ reviews' = ReviewFacade_update_review(review_id, d).repo
    /\ last' = [op |-> "update_review", res |-> ReviewFacade_update_review(review_id, d).res]
    /\ UNCHANGED entity
    /\ files' = FilesAfter

(***************************************************************************)
(* AmenityFacade.update_amenity and delete_amenity.  The update looks the   *)
(* amenity up, validates an Amenity made of the new name and writes the    *)
(* name; it does not look the new name up among the stored amenities.      *)
(***************************************************************************)
AmenityIds == {AmenityId(n) : n \in Upto(ids.a, MaxAmenities)}

AmenityFacade_update_amenity(amenity_id, name) ==
    IF ~repo_has(amenities, amenity_id)
    THEN [res |-> "NotFound", repo |-> amenities]
    ELSE IF ~Amenity_is_valid(name)
    THEN [res |-> "Validation", repo |-> amenities]
    ELSE [res |-> "ok", repo |-> repo_update(amenities, amenity_id, [name |-> name])]

update_amenity(amenity_id, name) ==
    /\ idle
    /\ interrupted' = "none"
    /\ UNCHANGED callers
    /\ UNCHANGED <<backend, users, places, reviews, ids, call>>
    /\ amenities' = AmenityFacade_update_amenity(amenity_id, name).repo
    /\ last' = FacadeUpdateResult("update_amenity",
                                  AmenityFacade_update_amenity(amenity_id, name).res,
                                  amenities, amenity_id, "name", name, Amenity_is_valid(name))
    /\ UNCHANGED entity
    /\ files' = FilesAfter

delete_amenity(amenity_id) ==
    /\ idle
    /\ interrupted' = "none"
    /\ UNCHANGED callers
    /\ UNCHANGED <<backend, users, places, reviews, ids, call>>
    /\ IF repo_has(amenities, amenity_id)
       THEN /\ amenities' = repo_delete(amenities, amenity_id)
            /\ last' = FacadeDeleteResult("delete_amenity", "ok", <<places>>)
       ELSE /\ UNCHANGED amenities
            /\ last' = FacadeDeleteResult("delete_amenity", "NotFound", <<places>>)
    /\ UNCHANGED entity
    /\ files' = FilesAfter

(***************************************************************************)
(* The Repository interface called directly, on the Amenity repository     *)
(* (the three classes are generic in the entity type).  get returns the    *)
(* object or None, get_by_attribute the list of the matches; update and    *)
(* delete look the id up and do nothing when it is not held.               *)
(***************************************************************************)
\* What a call of the Repository leaves in last: whether it raised, what it
\* returned, whether the id was held and whether the collection changed.
RepositoryResult(op, res, ret, held) ==
    [op |-> op, res |-> res, ret |-> ret, held |-> held,
     changed |-> amenities' # amenities]

Repository_get(storage, obj_id) ==
    IF repo_has(storage, obj_id) THEN <<storage[obj_id]>> ELSE <<>>

Repository_update(storage, obj_id, data) ==
    IF repo_has(storage, obj_id)
    THEN [res |-> "ok",
          repo |-> repo_update(storage, obj_id, [storage[obj_id] EXCEPT !.name = data.name])]
    ELSE [res |-> "ok", repo |-> storage]

\* delete without the test that the id is held: del of a missing key raises.
Repository_delete_unguarded(storage, obj_id) ==
    IF repo_has(storage, obj_id)
    THEN [res |-> "ok", repo |-> repo_delete(storage, obj_id)]
    ELSE [res |-> "KeyError", repo |-> storage]

Repository_delete(storage, obj_id) ==
    IF repo_has(storage, obj_id)
    THEN [res |-> "ok", repo |-> repo_delete(storage, obj_id)]
    ELSE [res |-> "ok", repo |-> storage]

repository_add(name) ==
    /\ idle
    /\ ids.a < MaxAmenities
    /\ interrupted' = "none"
    /\ UNCHANGED callers
    /\ UNCHANGED <<backend, users, places, reviews, call>>
    /\ amenities' = repo_add(amenities, AmenityId(ids.a + 1), [name |-> name])
    /\ ids' = [ids EXCEPT !.a = @ + 1]
    /\ last' = RepositoryResult("add", "ok", <<>>, FALSE)
    /\ UNCHANGED entity
    /\ files' = FilesAfter

repository_get(obj_id) ==
    /\ idle
    /\ interrupted' = "none"
    /\ UNCHANGED callers
    /\ UNCHANGED <<backend, users, places, reviews, amenities, ids, call>>
    /\ last' = RepositoryResult("get", "ok", Repository_get(amenities, obj_id),
                                repo_has(amenities, obj_id))
    /\ UNCHANGED entity
    /\ files' = FilesAfter

repository_get_by_attribute(name) ==
    /\ idle
    /\ interrupted' = "none"
    /\ UNCHANGED callers
    /\ UNCHANGED <<backend, users, places, reviews, amenities, ids, call>>
    /\ last' = RepositoryResult("get_by_attribute", "ok",
                                get_by_attribute(amenities, "name", name),
                                \E k \in DOMAIN amenities : amenities[k].name = name)
    /\ UNCHANGED entity
    /\ files' = FilesAfter

repository_update(obj_id, data) ==
    /\ idle
    /\ interrupted' = "none"
    /\ UNCHANGED callers
    /\ UNCHANGED <<backend, users, places, reviews, ids, call>>
    /\ amenities' = Repository_update(amenities, obj_id, data).repo
    /\ last' = RepositoryResult("update", Repository_update(amenities, obj_id, data).res,
                                <<>>, repo_has(amenities, obj_id))
    /\ UNCHANGED entity
    /\ files' = FilesAfter

repository_delete(obj_id) ==
    /\ idle
    /\ interrupted' = "none"
    /\ UNCHANGED callers
    /\ UNCHANGED <<backend, users, places, reviews, ids, call>>
    /\ amenities' = Repository_delete(amenities, obj_id).repo
    /\ last' = RepositoryResult("delete", Repository_delete(amenities, obj_id).res,
                                <<>>, repo_has(amenities, obj_id))
    /\ UNCHANGED entity
    /\ files' = FilesAfter

(***************************************************************************)
(* The entities as objects, their exported records and the objects made of *)
(* exported records.  A datetime is a pair of seconds and microseconds;    *)
(* isoformat leaves the microseconds out when they are zero, fromisoformat *)
(* reads both forms.                                                       *)
(***************************************************************************)
Datetimes == [s : 1..2, us : 0..1]

isoformat(dt) == IF dt.us = 0 THEN <<dt.s>> ELSE <<dt.s, dt.us>>

fromisoformat(str) == [s |-> str[1], us |-> IF Len(str) > 1 THEN str[2] ELSE 0]

\* BaseModel.__init__: a fresh id and the time of the two readings of the clock.
BaseModel_init(id, t1, t2) == [id |-> id, created_at |-> t1, updated_at |-> t2]

User_init(base, first_name, last_name, email, password, is_admin, places_) ==
    base @@ [cls |-> "User", first_name |-> first_name, last_name |-> last_name,
             email |-> email, password |-> password, is_admin |-> is_admin,
             places |-> places_]

Place_init(base, title, description, price, latitude, longitude, owner_id, owner_first_name, amenities_, reviews_) ==
    base @@ [cls |-> "Place", title |-> title, description |-> description,
             price |-> price, latitude |-> latitude, longitude |-> longitude,
             owner_first_name |-> owner_first_name, owner_id |-> owner_id,
             reviews |-> reviews_, amenities |-> amenities_]

Review_init(base, text, rating, place_id, place_name, user_id, user_first_name) ==
    base @@ [cls |-> "Review", text |-> text, rating |-> rating, place_id |-> place_id,
             place_name |-> place_name, user_id |-> user_id,
             user_first_name |-> user_first_name]

Amenity_init(base, name) == base @@ [cls |-> "Amenity", name |-> name]

User_to_dict(obj) ==
    [type |-> "user", id |-> obj.id, first_name |-> obj.first_name,
     last_name |-> obj.last_name, email |-> obj.email, password |-> obj.password,
     is_admin |-> obj.is_admin, places |-> obj.places,
     created_at |-> isoformat(obj.created_at), updated_at |-> isoformat(obj.updated_at)]

Place_to_dict(obj) ==
    [type |-> "place", id |-> obj.id, title |-> obj.title, description |-> obj.description,
     price |-> obj.price, latitude |-> obj.latitude, longitude |-> obj.longitude,
     owner_first_name |-> obj.owner_first_name, owner_id |-> obj.owner_id,
     reviews |-> obj.reviews, amenities |-> obj.amenities,
     created_at |-> isoformat(obj.created_at), updated_at |-> isoformat(obj.updated_at)]

Review_to_dict(obj) ==
    [type |-> "review", id |-> obj.id, text |-> obj.text, rating |-> obj.rating,
     place_id |-> obj.place_id, place_name |-> obj.place_name, user_id |-> obj.user_id,
     user_first_name |-> obj.user_first_name,
     created_at |-> isoformat(obj.created_at), updated_at |-> isoformat(obj.updated_at)]

Amenity_to_dict(obj) ==
    [type |-> "amenity", id |-> obj.id, name |-> obj.name,
     created_at |-> isoformat(obj.created_at), updated_at |-> isoformat(obj.updated_at)]

obj_to_dict(obj) ==
    CASE obj.cls = "User" -> User_to_dict(obj)
      [] obj.cls = "Place" -> Place_to_dict(obj)
      [] obj.cls = "Review" -> Review_to_dict(obj)
      [] obj.cls = "Amenity" -> Amenity_to_dict(obj)

\* dict_to_obj that keeps the id and the timestamps of the constructor.
dict_to_obj_fresh(obj_data, base) ==
    CASE obj_data.type = "user" ->
           [User_init(base, obj_data.first_name, obj_data.last_name, obj_data.email,
                      obj_data.password, obj_data.is_admin, <<>>)
              EXCEPT !.places = obj_data.places]
      [] obj_data.type = "place" ->
           Place_init(base, obj_data.title, obj_data.description, obj_data.price,
                      obj_data.latitude, obj_data.longitude, obj_data.owner_id,
                      obj_data.owner_first_name, obj_data.amenities, obj_data.reviews)
      [] obj_data.type = "review" ->
           Review_init(base, obj_data.text, obj_data.rating, obj_data.place_id,
                       obj_data.place_name, obj_data.user_id, obj_data.user_first_name)
      [] obj_data.type = "amenity" -> Amenity_init(base, obj_data.name)

\* InFileRepository.dict_to_obj; base is what BaseModel.__init__ gives the
\* object the constructor makes.
dict_to_obj(obj_data, base) ==
    LET created_at == fromisoformat(obj_data.created_at)
        updated_at == fromisoformat(obj_data.updated_at)
    IN CASE obj_data.type = "user" ->
              [User_init(base, obj_data.first_name, obj_data.last_name, obj_data.email,
                         obj_data.password, obj_data.is_admin, <<>>)
                 EXCEPT !.id = obj_data.id, !.created_at = created_at,
                        !.updated_at = updated_at, !.places = obj_data.places]
         [] obj_data.type = "place" ->
              [Place_init(base, obj_data.title, obj_data.description, obj_data.price,
                          obj_data.latitude, obj_data.longitude, obj_data.owner_id,
                          obj_data.owner_first_name, obj_data.amenities, obj_data.reviews)
                 EXCEPT !.id = obj_data.id, !.created_at = created_at,
                        !.updated_at = updated_at]
         [] obj_data.type = "review" ->
              [Review_init(base, obj_data.text, obj_data.rating, obj_data.place_id,
                           obj_data.place_name, obj_data.user_id, obj_data.user_first_name)
                 EXCEPT !.id = obj_data.id, !.created_at = created_at,
                        !.updated_at = updated_at]
         [] obj_data.type = "amenity" ->
              [Amenity_init(base, obj_data.name)
                 EXCEPT !.id = obj_data.id, !.created_at = created_at,
                        !.updated_at = updated_at]

\* The ids of the objects, and the id the constructor draws inside dict_to_obj.
EntityIds == {"e1", "e2"}

FreshBases == {BaseModel_init("e0", t, t) : t \in Datetimes}

\* The lists an entity may hold.
IdLists == {<<>>, <<"x1">>, <<"x1", "x2">>}

\* The objects the constructors make, with the lists the managers have filled.
NewEntities(base) ==
    {User_init(base, "Al", "Bo", Email(1), "pw", a, l) : a \in BOOLEAN, l \in IdLists}
    \cup {Place_init(base, Title(1), "d", 100, 10, 10, "u1", "Al", l, m) :
             l \in {<<>>, <<"Wifi">>}, m \in IdLists}
    \cup {Review_init(base, "Great", 5, "p1", Title(1), "u1", "Al")}
    \cup {Amenity_init(base, n) : n \in {"Wifi", "Sauna"}}

construct(obj) ==
    /\ idle
    /\ entity' = obj
    /\ last' = [op |-> "construct", res |-> "ok"]
    /\ UNCHANGED <<backend, users, places, reviews, amenities, ids, call, interrupted,
                   callers, files>>

\* The object is exported and made again of its record, as InFileRepository
\* does when it loads its file.
reload(base) ==
    /\ idle
    /\ entity # NoEntity
    /\ entity' = dict_to_obj(obj_to_dict(entity), base)
    /\ last' = [op |-> "reload", res |-> "ok", before |-> obj_to_dict(entity)]
    /\ UNCHANGED <<backend, users, places, reviews, amenities, ids, call, interrupted,
                   callers, files>>

(***************************************************************************)
(* BaseModel.update(data) and BaseModel.save.  Every key of data that is   *)
(* an attribute of the object and is not id, created_at or updated_at is   *)
(* set; created_at and updated_at are set from their ISO form when the     *)
(* value is a string; save then sets updated_at to the time of the clock.  *)
(* A value of data is a string (str) or another object (a datetime).       *)
(***************************************************************************)
Str(v) == [kind |-> "str", val |-> v]

Obj(v) == [kind |-> "datetime", val |-> v]

BaseModel_save(obj, t) == [obj EXCEPT !.updated_at = t]

\* update that sets every key of data that is an attribute, the id included.
BaseModel_update_any_key(obj, data, t) ==
    BaseModel_save([a \in DOMAIN obj |-> IF a \in DOMAIN data THEN data[a].val ELSE obj[a]], t)

BaseModel_update(obj, data, t) ==
    BaseModel_save(
        [a \in DOMAIN obj |->
            IF a \in DOMAIN data /\ a \notin {"id", "created_at", "updated_at"}
            THEN data[a].val
            ELSE IF /\ a \in DOMAIN data
                    /\ a \in {"created_at", "updated_at"}
                    /\ data[a].kind = "str"
            THEN fromisoformat(data[a].val)
            ELSE obj[a]],
        t)

\* The dictionaries handed to update: with and without the keys id, created_at
\* and updated_at, the timestamps as ISO strings and as datetime objects, and
\* with a key that no object has.
UpdateData ==
    {[name |-> Str("Spa")], [id |-> Str("e9")], [id |-> Str("e9"), name |-> Str("Spa")],
     [type |-> Str("amenity")], [first_name |-> Str("Cy")]}
    \cup {[created_at |-> Str(isoformat(t))] : t \in Datetimes}
    \cup {[created_at |-> Obj(t)] : t \in Datetimes}
    \cup {[updated_at |-> Str(isoformat(t)), name |-> Str("Spa")] : t \in Datetimes}

update(data, t) ==
    /\ idle
    /\ entity # NoEntity
    /\ entity' = BaseModel_update(entity, data, t)
    /\ last' = [op |-> "BaseModel_update", res |-> "ok",
                before |-> [id |-> entity.id, created_at |-> entity.created_at]]
    /\ UNCHANGED <<backend, users, places, reviews, amenities, ids, call, interrupted,
                   callers, files>>

(***************************************************************************)
(* The storage of an InMemoryRepository or InFileRepository holding        *)
(* objects: add stores the object under its own id, update looks the       *)
(* object up and hands the data to its update method, delete removes the   *)
(* key.  The storage is that of the Amenity repository.                    *)
(***************************************************************************)
\* What a call on the storage leaves in last: whether the id was held and
\* whether the data had the key id.
StorageResult(op, held, sent_id) == [op |-> op, res |-> "ok", held |-> held, sent_id |-> sent_id]

\* The times the clock shows at a call: an object is made at the first and
\* updated at the second.
Clock == {t \in Datetimes : t.us = 0}

\* The dictionaries handed to update that carry a name, an id or both.
StorageUpdateData == {d \in UpdateData : DOMAIN d \subseteq {"id", "name"}}

InMemoryRepository_add(obj) ==
    /\ idle
    /\ backend = "whole"
    /\ ids.a < MaxAmenities
    /\ obj.id = AmenityId(ids.a + 1)
    /\ amenities' = repo_add(amenities, obj.id, obj)
    /\ ids' = [ids EXCEPT !.a = @ + 1]
    /\ last' = StorageResult("InMemoryRepository_add", FALSE, FALSE)
    /\ UNCHANGED <<backend, users, places, reviews, call, interrupted, callers, entity>>
    /\ files' = FilesAfter

InMemoryRepository_update(obj_id, data, t) ==
    /\ idle
    /\ backend = "whole"
    /\ amenities' = IF repo_has(amenities, obj_id)
                    THEN repo_update(amenities, obj_id,
                                     BaseModel_update(amenities[obj_id], data, t))
                    ELSE amenities
    /\ last' = StorageResult("InMemoryRepository_update", repo_has(amenities, obj_id),
                             "id" \in DOMAIN data)
    /\ UNCHANGED <<backend, users, places, reviews, ids, call, interrupted, callers, entity>>
    /\ files' = FilesAfter

InMemoryRepository_delete(obj_id) ==
    /\ idle
    /\ backend = "whole"
    /\ amenities' = Repository_delete(amenities, obj_id).repo
    /\ last' = StorageResult("InMemoryRepository_delete", repo_has(amenities, obj_id), FALSE)
    /\ UNCHANGED <<backend, users, places, reviews, ids, call, interrupted, callers, entity>>
    /\ files' = FilesAfter

(***************************************************************************)
(* FacadeRelationManager.get_all_reviews_dict_from_place_reviews_id_list:  *)
(* every id of place.reviews is looked up with review_repo.get and what    *)
(* the lookup returns (the review, or None) is appended to the list that   *)
(* is returned.  The routes call it over either repository.                *)
(***************************************************************************)
\* What a read helper leaves in last: its outcome, the place it was asked for
\* and the list it returned (an element is <<review>>, or <<>> for None).
ReadResult(op, place_id, res, ret) ==
    [op |-> op, res |-> res, place |-> place_id, ret |-> ret]

reviews_dict_list(reviews_id_list) ==
    [i \in 1..Len(reviews_id_list) |-> Repository_get(reviews, reviews_id_list[i])]

get_all_reviews_dict_from_place_reviews_id_list(place_id) ==
    /\ idle
    /\ interrupted' = "none"
    /\ UNCHANGED <<backend, users, places, reviews, amenities, ids, call, callers, entity>>
    /\ files' = FilesAfter
    /\ LET op == "get_all_reviews_dict_from_place_reviews_id_list" IN
       IF ~repo_has(places, place_id)
       THEN last' = ReadResult(op, place_id, "NotFound", <<>>)
       ELSE LET list == reviews_dict_list(places[place_id].reviews) IN
            IF list = <<>>
            THEN last' = ReadResult(op, place_id, "NotFound", <<>>)
            ELSE last' = ReadResult(op, place_id, "ok", list)

(***************************************************************************)
(* The process stops immediately after step 3 of a deletion of a place     *)
(* (the owner has been persisted without the place, nothing else is done): *)
(* the cascade's position is lost, the stores stay as they are.            *)
(***************************************************************************)
interrupt_after_step_3 ==
    /\ call.pc = "dp_reviews"
    /\ call.top = "delete_place"
    /\ call.ridx = 1
    /\ call' = NoCascade
    /\ interrupted' = call.place
    /\ UNCHANGED callers
    /\ last' = [op |-> "interrupt", res |-> "none"]
    /\ UNCHANGED <<backend, users, places, reviews, amenities, ids>>
    /\ UNCHANGED entity
    /\ files' = FilesAfter

(***************************************************************************)
(* The relation manager's operations on users, places and reviews, called  *)
(* one after the other.                                                    *)
(***************************************************************************)
\* The payloads that make a user: well-formed, with an address no user holds.
NewUserData == {x \in UserData : User_is_valid(x) /\ x.email \notin HeldEmails}

\* The payloads that make a place: well-formed, with a title no place holds.
NewPlaceData == {x \in PlaceData : Place_is_valid(x) /\ x.title \notin HeldTitles}

Next ==
    \/ \E d \in UserData : create_user(d)
    \/ \E u \in UserIds, d \in PlaceData : create_place_for_user(u, d)
    \/ \E p \in PlaceIds, u \in UserIds : delete_place_from_owner_place_list(p, u)
    \/ \E p \in PlaceIds, u \in UserIds, d \in ReviewData : create_review_for_place(p, u, d)
    \/ \E r \in ReviewIds, p \in PlaceIds : delete_review_from_place_list(r, p)
    \/ \E p \in PlaceIds : delete_place_and_associated_instances(p)
    \/ delete_place_review
    \/ delete_place_finish
    \/ \E u \in UserIds : delete_user_and_associated_instances(u)
    \/ delete_user_step

Spec == Init /\ [][Next]_vars

(***************************************************************************)
(* The amenity operations of the relation manager, on places created by    *)
(* create_place_for_user from well-formed payloads.  The amenity           *)
(* operations never read the owner of a place: one owner stands for all.   *)
(***************************************************************************)
NextAmenity ==
    \/ \E d \in NewUserData : create_user(d)
    \/ \E d \in NewPlaceData : create_place_for_user(UserId(1), d)
    \/ \E p \in PlaceIds, n \in Names : add_amenity_to_a_place(p, n)
    \/ \E n \in Names, p \in PlaceIds : delete_amenity_from_place_list(n, p)

SpecAmenity == Init /\ [][NextAmenity]_vars

(***************************************************************************)
(* The same operations, with reviews also created through the Review       *)
(* Facade alone.                                                           *)
(***************************************************************************)
NextFacade ==
    \/ Next
    \/ \E d \in ReviewData, p \in PlaceIds, u \in UserIds : create_review(d, p, u)

SpecFacade == Init /\ [][NextFacade]_vars

(***************************************************************************)
(* The same operations, with a deletion of a place that may be interrupted *)
(* after its step 3.                                                       *)
(***************************************************************************)
NextCrash ==
    \/ Next
    \/ interrupt_after_step_3

SpecCrash == Init /\ [][NextCrash]_vars

(***************************************************************************)
(* The operations that link and unlink one entity at a time, without the   *)
(* cascades.                                                               *)
(***************************************************************************)
NextLinks ==
    \/ \E d \in UserData : create_user(d)
    \/ \E u \in UserIds, d \in PlaceData : create_place_for_user(u, d)
    \/ \E p \in PlaceIds, u \in UserIds : delete_place_from_owner_place_list(p, u)
    \/ \E p \in PlaceIds, u \in UserIds, d \in ReviewData : create_review_for_place(p, u, d)
    \/ \E r \in ReviewIds, p \in PlaceIds : delete_review_from_place_list(r, p)

SpecLinks == Init /\ [][NextLinks]_vars

(***************************************************************************)
(* The amenity operations called with the names a caller has at hand: a    *)
(* plain name, and the ids of the Amenity records created so far (an id is *)
(* a string of 36 characters, a well-formed name).                         *)
(***************************************************************************)
NamesAndIds == {"Wifi"} \cup {AmenityId(n) : n \in 1..ids.a}

NextAmenityIds ==
    \/ \E d \in NewUserData : create_user(d)
    \/ \E d \in NewPlaceData : create_place_for_user(UserId(1), d)
    \/ \E p \in PlaceIds, n \in NamesAndIds : add_amenity_to_a_place(p, n)
    \/ \E n \in NamesAndIds, p \in PlaceIds : delete_amenity_from_place_list(n, p)

SpecAmenityIds == Init /\ [][NextAmenityIds]_vars

(***************************************************************************)
(* Deletions of users over places that the Place Facade may have deleted   *)
(* on its own; the entities are made from well-formed payloads.  The       *)
(* deletions never read the author of a review: the owner of the place     *)
(* stands for every user who may review it.                                *)
(***************************************************************************)
Reviewer(place_id) ==
    IF repo_has(places, place_id) THEN places[place_id].owner_id ELSE UserId(1)

NextUserCascade ==
    \/ \E d \in NewUserData : create_user(d)
    \/ \E u \in UserIds, d \in NewPlaceData : create_place_for_user(u, d)
    \/ \E p \in PlaceIds : create_review_for_place(p, Reviewer(p), GoodReview)
    \/ \E p \in PlaceIds : delete_place(p)
    \/ \E u \in UserIds : delete_user_and_associated_instances(u)
    \/ delete_user_step
    \/ delete_place_review
    \/ delete_place_finish

SpecUserCascade == Init /\ [][NextUserCascade]_vars

(***************************************************************************)
(* Two callers that create places at the same time, next to calls that run *)
(* alone.                                                                  *)
(***************************************************************************)
NextRace ==
    \/ \E d \in NewUserData : create_user(d)
    \/ \E u \in UserIds, d \in NewPlaceData : create_place_for_user(u, d)
    \/ \E c \in Callers, u \in UserIds, t \in Titles : cp_lookup(c, u, t)
    \/ \E c \in Callers : cp_create(c)
    \/ \E c \in Callers : cp_read(c)
    \/ \E c \in Callers : cp_write(c)

SpecRace == Init /\ [][NextRace]_vars

(***************************************************************************)
(* The creates of the four Facades, called directly.  The Review Facade    *)
(* stores the place_id and user_id of the payload unread, so one pair of   *)
(* ids stands for all.                                                     *)
(***************************************************************************)
NextCreate ==
    \/ \E d \in UserData : create_user(d)
    \/ \E d \in PlaceData, u \in UserIds : create_place(d, u)
    \/ \E n \in Names : create_amenity(n)
    \/ \E d \in ReviewData : create_review(d, PlaceId(1), UserId(1))

SpecCreate == Init /\ [][NextCreate]_vars

(***************************************************************************)
(* The creates and updates of the User and Place Facades, called directly. *)
(* One user more than MaxUsers can be made here, so that an update can name *)
(* the email of another user.                                              *)
(***************************************************************************)
MaxAccounts == MaxUsers + 1

AccountData ==
    [email : {Email(n) : n \in 1..MaxAccounts} \cup {"not-an-email"}, first_name : FirstNames]

AccountIds == {UserId(n) : n \in Upto(ids.u, MaxAccounts)}

NextUpdate ==
    \/ \E d \in AccountData : create_user_upto(d, MaxAccounts)
    \/ \E d \in AccountData, u \in AccountIds : update_user(u, d)
    \/ \E d \in PlaceData : create_place(d, UserId(1))
    \/ \E d \in PlaceData, p \in PlaceIds : update_place(p, d)

SpecUpdate == Init /\ [][NextUpdate]_vars

(***************************************************************************)
(* The Amenity Facade, called directly.                                    *)
(***************************************************************************)
NextAmenityFacade ==
    \/ \E n \in Names : create_amenity(n)
    \/ \E n \in Names, a \in AmenityIds : update_amenity(a, n)
    \/ \E a \in AmenityIds : delete_amenity(a)

SpecAmenityFacade == Init /\ [][NextAmenityFacade]_vars

(***************************************************************************)
(* The deletes of the Place, Review and Amenity Facades, called directly   *)
(* on places, reviews and amenities that the relation manager has linked.  *)
(* delete_amenity reads no place: one place that lists the name stands for *)
(* all.                                                                    *)
(***************************************************************************)
NextDelete ==
    \/ \E d \in NewUserData : create_user(d)
    \/ \E d \in NewPlaceData : create_place_for_user(UserId(1), d)
    \/ \E p \in PlaceIds : create_review_for_place(p, Reviewer(p), GoodReview)
    \/ add_amenity_to_a_place(PlaceId(1), "Wifi")
    \/ \E p \in PlaceIds : delete_place(p)
    \/ \E r \in ReviewIds : delete_review(r)
    \/ \E a \in AmenityIds : delete_amenity(a)

SpecDelete == Init /\ [][NextDelete]_vars

(***************************************************************************)
(* The calls of the Repository interface, in any order.                    *)
(***************************************************************************)
NextRepository ==
    \/ \E n \in Names : repository_add(n)
    \/ \E a \in AmenityIds : repository_get(a)
    \/ \E n \in Names : repository_get_by_attribute(n)
    \/ \E a \in AmenityIds, n \in Names : repository_update(a, [name |-> n])
    \/ \E a \in AmenityIds : repository_delete(a)

SpecRepository == Init /\ [][NextRepository]_vars

(***************************************************************************)
(* One object that is constructed, exported and made again of its record.  *)
(***************************************************************************)
NextEntity ==
    \/ \E i \in EntityIds, t1, t2 \in Datetimes :
          \E obj \in NewEntities(BaseModel_init(i, t1, t2)) : construct(obj)
    \/ \E base \in FreshBases : reload(base)

SpecEntity == Init /\ [][NextEntity]_vars

(***************************************************************************)
(* The creates and updates of the Place and Review Facades, called         *)
(* directly with payloads inside and outside the ranges of the fields.     *)
(***************************************************************************)
ReviewDataAnyRating == ReviewData \cup {[GoodReview EXCEPT !.rating = 1]}

NextRange ==
    \/ \E d \in PlaceDataAnyLongitude : create_place(d, UserId(1))
    \/ \E d \in PlaceDataAnyLongitude, p \in PlaceIds : update_place(p, d)
    \/ \E d \in ReviewDataAnyRating : create_review(d, PlaceId(1), UserId(1))
    \/ \E d \in ReviewDataAnyRating, r \in ReviewIds : update_review(r, d)

SpecRange == Init /\ [][NextRange]_vars

(***************************************************************************)
(* add_amenity_to_a_place with names of 0, 4, 49, 50 and 51 characters.    *)
(***************************************************************************)
NamesByLength ==
    LET Name49 == "xxxxxxxxxxxxxxxxxxxxxxxxxxxxxxxxxxxxxxxxxxxxxxxxx"
    IN {"", "Wifi", Name49, Name49 \o "x", Name49 \o "xx"}

NextAmenityLength ==
    \/ \E d \in NewUserData : create_user(d)
    \/ \E d \in NewPlaceData : create_place_for_user(UserId(1), d)
    \/ \E p \in PlaceIds, n \in NamesByLength : add_amenity_to_a_place(p, n)
    \/ \E n \in NamesByLength, p \in PlaceIds : delete_amenity_from_place_list(n, p)

SpecAmenityLength == Init /\ [][NextAmenityLength]_vars

(***************************************************************************)
(* Manager and Facade operations on file-backed repositories, with         *)
(* delete_review_from_place_list run statement by statement.               *)
(***************************************************************************)
NextFile ==
    \/ \E d \in NewUserData : create_user(d)
    \/ \E d \in NewPlaceData : create_place_for_user(UserId(1), d)
    \/ \E p \in PlaceIds : create_review_for_place(p, Reviewer(p), GoodReview)
    \/ \E d \in NewPlaceData, p \in PlaceIds : update_place(p, d)
    \/ \E p \in PlaceIds : delete_place(p)
    \/ \E r \in ReviewIds, p \in PlaceIds : dr_remove(r, p)
    \/ dr_update
    \/ dr_delete

SpecFile == Init /\ [][NextFile]_vars

(***************************************************************************)
(* One object that is constructed and updated.                             *)
(***************************************************************************)
NextBaseModel ==
    \/ \E i \in EntityIds, t1, t2 \in Datetimes :
          \E obj \in NewEntities(BaseModel_init(i, t1, t2)) : construct(obj)
    \/ \E data \in UpdateData, t \in Datetimes : update(data, t)

SpecBaseModel == Init /\ [][NextBaseModel]_vars

(***************************************************************************)
(* The reviews of a place read back through the relation manager, after    *)
(* reviews were created by the manager and deleted by the manager or by    *)
(* the Review Facade.                                                      *)
(***************************************************************************)
NextRead ==
    \/ \E d \in NewUserData : create_user(d)
    \/ \E d \in NewPlaceData : create_place_for_user(UserId(1), d)
    \/ \E p \in PlaceIds : create_review_for_place(p, Reviewer(p), GoodReview)
    \/ \E r \in ReviewIds, p \in PlaceIds : delete_review_from_place_list(r, p)
    \/ \E r \in ReviewIds : delete_review(r)
    \/ \E p \in PlaceIds : get_all_reviews_dict_from_place_reviews_id_list(p)

SpecRead == Init /\ [][NextRead]_vars

(***************************************************************************)
(* Deletions of users among several users: two accounts own places that    *)
(* are reviewed, and one place lists an amenity.  The entities are made    *)
(* from well-formed payloads; the whole-object manager fails at a place    *)
(* that has no review.                                                     *)
(***************************************************************************)
NewAccountData ==
    {x \in AccountData : User_is_valid(x) /\ x.first_name = "Al" /\ x.email \notin HeldEmails}

\* The accounts that own places: the first two.
Owners == AccountIds \cap {UserId(1), UserId(2)}

NextFrame ==
    \/ \E d \in NewAccountData : create_user_upto(d, MaxAccounts)
    \/ \E u \in Owners, d \in NewPlaceData : create_place_for_user(u, d)
    \/ \E p \in PlaceIds : create_review_for_place(p, Reviewer(p), GoodReview)
    \/ add_amenity_to_a_place(PlaceId(1), "Wifi")
    \/ \E u \in AccountIds : delete_user_and_associated_instances(u)
    \/ delete_user_step
    \/ delete_place_review
    \/ delete_place_finish

SpecFrame == Init /\ [][NextFrame]_vars

(***************************************************************************)
(* delete_place_from_owner_place_list called with any place and any        *)
(* account, the owner of the place or not, on reviewed places of two       *)
(* owners.                                                                 *)
(***************************************************************************)
NextOwnerList ==
    \/ \E d \in NewAccountData : create_user_upto(d, MaxAccounts)
    \/ \E u \in Owners, d \in NewPlaceData : create_place_for_user(u, d)
    \/ \E p \in PlaceIds : create_review_for_place(p, Reviewer(p), GoodReview)
    \/ \E p \in PlaceIds, u \in AccountIds : delete_place_from_owner_place_list(p, u)

SpecOwnerList == Init /\ [][NextOwnerList]_vars

(***************************************************************************)
(* Two callers that add amenities to places at the same time, with names   *)
(* that AmenityFacade.create_amenity accepts.                              *)
(***************************************************************************)
NextAmenityRace ==
    \/ \E d \in NewUserData : create_user(d)
    \/ \E d \in NewPlaceData : create_place_for_user(UserId(1), d)
    \/ \E c \in Callers, p \in PlaceIds, n \in {x \in Names : Amenity_is_valid(x)} :
          aa_lookup(c, p, n)
    \/ \E c \in Callers : aa_append(c)
    \/ \E c \in Callers : aa_check(c)
    \/ \E c \in Callers : aa_add(c)

SpecAmenityRace == Init /\ [][NextAmenityRace]_vars

(***************************************************************************)
(* A caller that creates a review for a place while the place is being     *)
(* deleted with its reviews, next to calls that run alone.                 *)
(***************************************************************************)
NextReviewRace ==
    \/ \E d \in NewUserData : create_user(d)
    \/ \E d \in NewPlaceData : create_place_for_user(UserId(1), d)
    \/ \E p \in PlaceIds : create_review_for_place(p, Reviewer(p), GoodReview)
    \/ \E c \in Callers, p \in PlaceIds : cr_lookup(c, p, Reviewer(p))
    \/ \E c \in Callers : cr_create(c)
    \/ \E c \in Callers : cr_append(c)
    \/ \E p \in PlaceIds : delete_place_and_associated_instances(p)
    \/ delete_place_review
    \/ delete_place_finish

SpecReviewRace == Init /\ [][NextReviewRace]_vars

(***************************************************************************)
(* add, update and delete on the storage of a repository of objects, in    *)
(* any order, the data of an update with and without the key id.          *)
(***************************************************************************)
NextStorage ==
    \/ \E t \in {x \in Clock : x.s = 1}, n \in {"Wifi", "Sauna"} :
          InMemoryRepository_add(Amenity_init(BaseModel_init(AmenityId(ids.a + 1), t, t), n))
    \/ \E a \in AmenityIds, d \in StorageUpdateData, t \in {x \in Clock : x.s = 2} :
          InMemoryRepository_update(a, d, t)
    \/ \E a \in AmenityIds : InMemoryRepository_delete(a)

SpecStorage == Init /\ [][NextStorage]_vars

(***************************************************************************)
(* Properties of the relation managers.                                    *)
(***************************************************************************)
DeletedPlace == last.op = "delete_place_and_associated_instances"

DeletedUser == last.op = "delete_user_and_associated_instances"

ReviewsOf(place_ids) == {r \in DOMAIN reviews : reviews[r].place_id \in place_ids}

\* C1: after create_place_for_user(U, D) has returned place P for an existing
\* user U and accepted data D, P.id occurs exactly once in U's places list and
\* P is stored with owner_id = U, under either manager.
C1_PlaceListedOnce ==
    (last.op = "create_place_for_user" /\ last.res = "ok")
       => /\ repo_has(users, last.user)
          /\ Count(users[last.user].places, last.ret) = 1
          /\ repo_has(places, last.ret)
          /\ places[last.ret].owner_id = last.user

\* A second place has just been created for a user who owned one already.
C1_SecondPlaceCreated ==
    /\ last.op = "create_place_for_user"
    /\ last.res = "ok"
    /\ Len(users[last.user].places) = 2

\* C2: after delete_place_and_associated_instances(P) has succeeded, P is not
\* in the Place repository, no user lists P, and no stored review has
\* place_id = P, reviews created through the Review Facade included.
C2_NoReviewOfDeletedPlace ==
    (DeletedPlace /\ last.res = "ok")
       => /\ ~repo_has(places, last.place)
          /\ \A u \in DOMAIN users : ~Contains(users[u].places, last.place)
          /\ ReviewsOf({last.place}) = {}

\* C3: delete_user_and_associated_instances(U), for a user U whose places all
\* have a review, runs the place cascade for every id that was in U.places
\* when the call started, and leaves no place owned by U, no review of a
\* place U owned, and no user U.
C3_EveryPlaceCascaded ==
    (/\ DeletedUser
     /\ last.user # "-"
     /\ last.owned = Range(last.start_places)
     /\ last.start_reviewed = Range(last.start_places))
       => /\ Range(last.start_places) \subseteq last.invoked
          /\ get_by_attribute(places, "owner_id", last.user) = {}
          /\ ReviewsOf(last.owned) = {}
          /\ ~repo_has(users, last.user)

\* C4: delete_user_and_associated_instances(U) succeeds for a user U whose
\* places have empty reviews lists, and U and those places are gone
\* afterwards; delete_place_and_associated_instances(P) succeeds for a place
\* P that has no review.
C4_DeletionWithoutReviews ==
    /\ (/\ DeletedUser
        /\ last.user # "-"
        /\ last.owned = Range(last.start_places)
        /\ last.start_reviewed = {})
          => /\ last.res = "ok"
             /\ ~repo_has(users, last.user)
             /\ \A p \in last.owned : ~repo_has(places, p)
    /\ (DeletedPlace /\ last.pre_empty)
          => /\ last.res = "ok"
             /\ ~repo_has(places, last.place)

\* C5: between operations, a stored place P has owner_id = U for a stored
\* user U exactly when P.id is in U.places.
C5_Ownership ==
    idle => \A u \in DOMAIN users, p \in DOMAIN places :
               (places[p].owner_id = u) <=> Contains(users[u].places, p)

\* C6: between operations, a stored review R has place_id = P for a stored
\* place P exactly when R.id is in P.reviews.
C6_ReviewLinkage ==
    idle => \A r \in DOMAIN reviews, p \in DOMAIN places :
               (reviews[r].place_id = p) <=> Contains(places[p].reviews, r)

\* One review of a place has just been deleted and another one is stored.
C6_ReviewDeletedOneLeft ==
    /\ last.op = "delete_review_from_place_list"
    /\ last.res = "ok"
    /\ ReviewsOf({last.place}) # {}

\* C7: delete_place_and_associated_instances writes in the order owner's
\* list, reviews, place: while the reviews are being deleted the owner does
\* not list the place any more and the place is still stored, and after
\* every single write no user's places list holds the id of a place that is
\* not in the Place repository.
C7_OwnerThenReviewsThenPlace ==
    /\ \A u \in DOMAIN users : \A p \in Range(users[u].places) : repo_has(places, p)
    /\ call.pc = "dp_reviews"
          => /\ repo_has(places, call.place)
             /\ \A u \in DOMAIN users : ~Contains(users[u].places, call.place)
             /\ \A i \in 1..(call.ridx - 1) : ~repo_has(reviews, reviews_ids_list[i])

\* The first review of a place is deleted, the place itself not yet, and its
\* owner lists another place.
C7_MidCascade ==
    /\ call.pc = "dp_reviews"
    /\ call.ridx = 2
    /\ \E u \in DOMAIN users : users[u].places # <<>>

\* C8: when delete_place_and_associated_instances(P) stops right after its
\* step 3, P is still stored, and a second
\* delete_place_and_associated_instances(P) succeeds and deletes P and its
\* reviews.
C8_RetryCompletes ==
    /\ interrupted # "none" => repo_has(places, interrupted)
    /\ (DeletedPlace /\ last.retry)
          => /\ last.res = "ok"
             /\ ~repo_has(places, last.place)
             /\ ReviewsOf({last.place}) = {}

\* C9: add_amenity_to_a_place(P, N) for a name N that P.amenities holds
\* already raises the "already exist" error and changes neither the places
\* nor the Amenity repository, and no name is ever twice in a place's
\* amenities list.
C9_DuplicateNameRejected ==
    /\ \A p \in DOMAIN places : \A n \in Names : Count(places[p].amenities, n) <= 1
    /\ (last.op = "add_amenity_to_a_place" /\ last.listed)
          => (last.res = "Conflict" /\ ~last.changed)

\* The name has just been refused for a place that lists it.
C9_Refused ==
    /\ last.op = "add_amenity_to_a_place"
    /\ last.listed
    /\ last.res = "Conflict"

\* C10: whatever add_amenity_to_a_place and delete_amenity_from_place_list
\* calls were made, the Amenity repository holds at most one record of each
\* name.
C10_OneAmenityPerName ==
    \A a, b \in DOMAIN amenities : amenities[a].name = amenities[b].name => a = b

\* Two places list the same name and the repository holds its one record.
C10_NameSharedByTwoPlaces ==
    \E p, q \in DOMAIN places, n \in Names :
        /\ p # q
        /\ Contains(places[p].amenities, n)
        /\ Contains(places[q].amenities, n)
        /\ Cardinality(get_by_attribute(amenities, "name", n)) = 1


\* C11: add_amenity_to_a_place(P, N), for a stored place P that does not list
\* the well-formed name N, succeeds, lists N in P.amenities and leaves one
\* Amenity record named N: a new one when none existed, the one that existed
\* (and no new one) when another place had added N before.
C11_AddAmenitySucceeds ==
    [][\A p \in DOMAIN places, n \in Names :
          (/\ Amenity_is_valid(n)
           /\ ~Contains(places[p].amenities, n)
           /\ add_amenity_to_a_place(p, n))
             => /\ last'.res = "ok"
                /\ Contains(places'[p].amenities, n)
                /\ Cardinality(get_by_attribute(amenities', "name", n)) = 1
                /\ get_by_attribute(amenities, "name", n) # {} => amenities' = amenities]_vars

\* C12: delete_amenity_from_place_list(N, P), called once P lists N, takes N
\* out of P.amenities and removes no record from the Amenity repository, so
\* the Amenity named N is still stored.
C12_DeleteKeepsAmenityRecords ==
    [][\A p \in DOMAIN places, n \in NamesAndIds :
          (/\ Contains(places[p].amenities, n)
           /\ delete_amenity_from_place_list(n, p))
             => /\ ~Contains(places'[p].amenities, n)
                /\ amenities' = amenities]_vars

\* C13: delete_amenity_from_place_list(N, P) raises NotFound when place P does
\* not exist or N is not in P.amenities at the call, and then neither any
\* place's amenities list nor the Amenity repository has changed.
C13_DeleteUnlistedRefused ==
    (last.op = "delete_amenity_from_place_list" /\ ~last.listed)
        => (last.res = "NotFound" /\ ~last.changed)

C13_Refused ==
    /\ last.op = "delete_amenity_from_place_list"
    /\ ~last.listed
    /\ last.res = "NotFound"
    /\ amenities # Empty
    /\ \E p \in DOMAIN places : places[p].amenities # <<>>

\* C14: when create_review_for_place(P, U, data) returned review R for a stored
\* place P and a stored user U, R is stored with place_id = P and user_id = U,
\* whatever data held under these keys, and R.id occurs exactly once in
\* P.reviews.
C14_ReviewStamped ==
    (last.op = "create_review_for_place" /\ last.res = "ok")
        => /\ repo_has(reviews, last.ret)
           /\ reviews[last.ret].place_id = last.place
           /\ reviews[last.ret].user_id = last.user
           /\ repo_has(places, last.place)
           /\ Count(places[last.place].reviews, last.ret) = 1

C14_SecondReviewCreated ==
    /\ last.op = "create_review_for_place"
    /\ last.res = "ok"
    /\ Len(places[last.place].reviews) = 2
    /\ reviews[last.ret].place_id # GoodReview.place_id
    /\ reviews[last.ret].user_id # GoodReview.user_id

\* C15: create_review_for_place(P, U, data) raises NotFound when place P or
\* user U is not stored, and a Validation error when they are stored and data
\* is invalid; a call that raised has added no review to the Review repository
\* and has left every place's reviews list as it was.
C15_FailedReviewWritesNothing ==
    last.op = "create_review_for_place"
        => /\ last.pre = "absent" => last.res = "NotFound"
           /\ last.pre = "invalid" => last.res = "Validation"
           /\ last.res # "ok" => ~last.changed

C15_InvalidReviewRefused ==
    /\ last.op = "create_review_for_place"
    /\ last.pre = "invalid"
    /\ last.res = "Validation"
    /\ reviews # Empty

\* C16: delete_review_from_place_list(R, P) raises NotFound when place P is not
\* stored or R is not in P.reviews, and then the places and the Review
\* repository are as before; when P lists R the call returns, and afterwards R
\* is neither in P.reviews nor in the Review repository.
C16_DeleteReview ==
    last.op = "delete_review_from_place_list"
        => /\ ~last.listed => (last.res = "NotFound" /\ ~last.changed)
           /\ last.listed => (last.res = "ok" /\ last.gone)

C16_ReviewDeletedFromBoth ==
    /\ last.op = "delete_review_from_place_list"
    /\ last.res = "ok"
    /\ last.gone
    /\ reviews # Empty

\* C17: a call of create_place_for_user(U, D) that raises - NotFound because
\* user U is not stored, Conflict because a stored place has D's title, or a
\* Validation error because D fails Place.is_valid - has added no place to the
\* Place repository and has changed no user's places list.
C17_FailedPlaceWritesNothing ==
    last.op = "create_place_for_user"
        => /\ last.pre = "absent" => last.res = "NotFound"
           /\ last.pre = "taken" => last.res = "Conflict"
           /\ last.pre = "invalid" => last.res = "Validation"
           /\ last.res # "ok" => ~last.changed

C17_TakenTitleRefused ==
    /\ last.op = "create_place_for_user"
    /\ last.pre = "taken"
    /\ last.res = "Conflict"
    /\ Cardinality(DOMAIN places) = 1

\* C18: a deletion of user U that fails at the k-th place it processes, k > 1,
\* is not rolled back: the error ends the call, U is still stored, and every
\* place processed before the failing one is gone from the Place repository
\* and from U.places, with no review of it left in the Review repository.
C18_NoRollback ==
    (/\ last.op = "delete_user_and_associated_instances"
     /\ last.res # "ok"
     /\ Cardinality(last.invoked) > 1)
        => /\ idle
           /\ repo_has(users, last.user)
           /\ \A p \in last.invoked \ {last.failed_at} :
                 /\ p \in Range(last.start_places)
                 /\ ~repo_has(places, p)
                 /\ ~Contains(users[last.user].places, p)
                 /\ ReviewsOf({p}) = {}

C18_FailedAtSecondPlace ==
    /\ last.op = "delete_user_and_associated_instances"
    /\ last.res # "ok"
    /\ Cardinality(last.invoked) > 1
    /\ last.start_reviewed # {}

\* C19: when two callers have run create_place_for_user for the same user at
\* the same time and both have returned a place, both places are stored and
\* the user's list holds the place of the caller that wrote last, each new id
\* at most once; the place of the other caller may be missing from the list
\* (C19_LostUpdate is a reachable state).
C19_LastWriteWins ==
    (/\ \A c \in Callers : callers[c].pc = "done" /\ callers[c].res = "ok"
     /\ callers["A"].user = callers["B"].user)
        => \A c \in Callers :
              /\ repo_has(places, callers[c].place)
              /\ places[callers[c].place].owner_id = callers[c].user
              /\ Count(users[callers[c].user].places, callers[c].place) <= 1
              /\ callers[c].wrote_last
                    => Contains(users[callers[c].user].places, callers[c].place)

C19_LostUpdate ==
    /\ \A c \in Callers : callers[c].pc = "done" /\ callers[c].res = "ok"
    /\ callers["A"].user = callers["B"].user
    /\ repo_has(places, callers["A"].place)
    /\ repo_has(places, callers["B"].place)
    /\ \E c \in Callers : ~Contains(users[callers[c].user].places, callers[c].place)
    /\ \E c \in Callers : Contains(users[callers[c].user].places, callers[c].place)

\* C20: a create of a Facade that raises - a uniqueness Conflict or a
\* Validation error of UserFacade.create_user, PlaceFacade.create_place,
\* AmenityFacade.create_amenity or ReviewFacade.create_review - has written
\* nothing: the repositories hold what they held before the call.
C20_FailedCreateWritesNothing ==
    (/\ last.op \in {"create_user", "create_place", "create_amenity", "create_review"}
     /\ last.res # "ok")
        => (last.res \in {"Conflict", "Validation"} /\ ~last.changed)

C20_DuplicateEmailRefused ==
    /\ last.op = "create_user"
    /\ last.res = "Conflict"
    /\ users # Empty
    /\ places # Empty
    /\ amenities # Empty
    /\ reviews # Empty

(***************************************************************************)
(* C21: after any sequence of creates and updates of the User and Place    *)
(* Facades no two stored users share an email and no two stored places     *)
(* share a title; an update to a key that another entity holds is refused  *)
(* with Conflict and writes nothing; an update that keeps the entity's own *)
(* key is not refused for it (it succeeds when the payload is well-formed).*)
(***************************************************************************)
C21_KeysUnique ==
    /\ \A u1, u2 \in DOMAIN users : users[u1].email = users[u2].email => u1 = u2
    /\ \A p1, p2 \in DOMAIN places : places[p1].title = places[p2].title => p1 = p2
    /\ last.op \in {"update_user", "update_place"} =>
          /\ last.key = "taken" => last.res = "Conflict" /\ ~last.changed
          /\ last.key = "own" => last.res # "Conflict"
          /\ last.key = "own" /\ last.valid => last.res = "ok"

\* An update of a user has been refused because another user holds the email,
\* with two users and two places stored.
C21_UpdateToTakenEmailRefused ==
    /\ last.op = "update_user"
    /\ last.key = "taken"
    /\ last.res = "Conflict"
    /\ Cardinality(DOMAIN users) = 2
    /\ Cardinality(DOMAIN places) = 2

(***************************************************************************)
(* C22: after any sequence of create_amenity and update_amenity calls of   *)
(* the Amenity Facade no two stored Amenity records have the same name, an *)
(* update to a name that another amenity holds being refused.              *)
(***************************************************************************)
C22_AmenityNamesUnique ==
    /\ \A a1, a2 \in DOMAIN amenities : amenities[a1].name = amenities[a2].name => a1 = a2
    /\ last.op = "update_amenity" /\ last.key = "taken" => last.res = "Conflict"

(***************************************************************************)
(* C23: a delete of a Facade touches only the deleted record.  After       *)
(* PlaceFacade.delete_place the users (their places lists) and the Review  *)
(* repository are as before; after ReviewFacade.delete_review and after    *)
(* AmenityFacade.delete_amenity the places (their reviews and amenities    *)
(* lists) are as before.                                                   *)
(***************************************************************************)
C23_DeleteTouchesOneRecord ==
    /\ last.op = "delete_place" => last.before = <<users, reviews>>
    /\ last.op \in {"delete_review", "delete_amenity"} => last.before = <<places>>

\* A place has just been deleted that its owner still lists and that a stored
\* review is about, while the other place lists a review that was deleted and
\* the name of an amenity that was deleted.
C23_DeletedButStillListed ==
    /\ last.op = "delete_place" /\ last.res = "ok"
    /\ \E u \in DOMAIN users : \E i \in 1..Len(users[u].places) :
          ~repo_has(places, users[u].places[i])
    /\ \E r \in DOMAIN reviews : ~repo_has(places, reviews[r].place_id)
    /\ \E p \in DOMAIN places :
          /\ \E i \in 1..Len(places[p].reviews) : ~repo_has(reviews, places[p].reviews[i])
          /\ Contains(places[p].amenities, "Wifi")
          /\ get_by_attribute(amenities, "name", "Wifi") = {}

(***************************************************************************)
(* C24: on every backend, get of an id that is not held returns None,      *)
(* get_by_attribute without a match returns an empty list, and update and  *)
(* delete of an id that is not held raise nothing and leave the stored     *)
(* collection as it was.                                                   *)
(***************************************************************************)
C24_AbsenceIsNoError ==
    /\ last.op = "get" /\ ~last.held => last.res = "ok" /\ last.ret = <<>>
    /\ last.op = "get_by_attribute" /\ ~last.held => last.res = "ok" /\ last.ret = {}
    /\ last.op \in {"update", "delete"} /\ ~last.held => last.res = "ok" /\ ~last.changed

\* An id that was held and has been deleted is deleted once more.
C24_DeletedTwice ==
    /\ last.op = "delete" /\ ~last.held
    /\ ids.a = MaxAmenities
    /\ Cardinality(DOMAIN amenities) = MaxAmenities - 1

(***************************************************************************)
(* C25: for every entity E of the four types the record exported by the    *)
(* object made of E's exported record equals E's exported record, field    *)
(* for field: id, created_at, updated_at and the lists included.           *)
(***************************************************************************)
C25_RoundTrip ==
    last.op = "reload" => obj_to_dict(entity) = last.before

\* A place with reviews and amenities, made at a full second and updated at a
\* time with microseconds, has been exported and made again.
C25_PlaceReloaded ==
    /\ last.op = "reload"
    /\ entity.cls = "Place"
    /\ Len(entity.reviews) = 2 /\ entity.amenities = <<"Wifi">>
    /\ entity.created_at.us = 0 /\ entity.updated_at.us = 1
    /\ entity.id = "e2"

(***************************************************************************)
(* C26: the two managers are interchangeable.  In every state that manager *)
(* operations lead to, delete_place_from_owner_place_list of the           *)
(* whole-object manager and of the transactional manager yield the same    *)
(* outcome and leave the same users and places, whatever place and user    *)
(* the caller names.                                                       *)
(***************************************************************************)
C26_ManagersAgree ==
    \A p \in PlaceIds, u \in UserIds :
        delete_place_from_owner_place_list_of("whole", p, u)
            = delete_place_from_owner_place_list_of("sql", p, u)

(***************************************************************************)
(* C27: after any sequence of creates and updates of the Place Facade      *)
(* every stored place has a price of at least 0, a latitude in [-90, 90]   *)
(* and a longitude in [-180, 180], and after any sequence of creates and   *)
(* updates of the Review Facade every stored review has a rating in        *)
(* [1, 5]: no create or update with a value outside these ranges has been  *)
(* accepted.                                                               *)
(***************************************************************************)
C27_FieldsInRange ==
    /\ \A p \in DOMAIN places :
          /\ places[p].price >= 0
          /\ places[p].latitude >= -90 /\ places[p].latitude <= 90
          /\ places[p].longitude >= -180 /\ places[p].longitude <= 180
    /\ \A r \in DOMAIN reviews : reviews[r].rating >= 1 /\ reviews[r].rating <= 5

(***************************************************************************)
(* C28: add_amenity_to_a_place, called for a stored place that does not    *)
(* list the name, appends a name of 1 to 50 characters to the list of the  *)
(* place, and refuses an empty name and a name of 51 or more characters    *)
(* with a Validation error, the places and the Amenity repository being    *)
(* left as they were.                                                      *)
(***************************************************************************)
C28_NameLength ==
    (/\ last.op = "add_amenity_to_a_place"
     /\ last.res # "NotFound"
     /\ ~last.listed)
       => /\ last.fits => last.appended
          /\ ~last.fits => last.res = "Validation" /\ ~last.changed

C30_IdAndCreatedAtKept ==
    last.op = "BaseModel_update"
       => /\ entity.id = last.before.id
          /\ entity.created_at = last.before.created_at

(***************************************************************************)
(* C31: every element of the list that                                     *)
(* get_all_reviews_dict_from_place_reviews_id_list(P) returns is a stored  *)
(* review whose place_id is P, never None, after any sequence of           *)
(* operations of the manager and of the Review Facade.                     *)
(***************************************************************************)
C31_ReviewsResolved ==
    (last.op = "get_all_reviews_dict_from_place_reviews_id_list" /\ last.res = "ok")
       => \A i \in 1..Len(last.ret) :
             /\ last.ret[i] # <<>>
             /\ last.ret[i][1].id \in DOMAIN reviews
             /\ last.ret[i][1].place_id = last.place

(***************************************************************************)
(* C32: a call of add_amenity_to_a_place that raises an error, of whatever *)
(* kind, has not appended the name to the amenities list of the place.     *)
(***************************************************************************)
C32_FailedAddAppendsNothing ==
    (last.op = "add_amenity_to_a_place" /\ last.res # "ok") => ~last.appended

(***************************************************************************)
(* C33: delete_user_and_associated_instances(U), whether it returns or     *)
(* raises, leaves every user other than U, every place whose owner_id is   *)
(* not U, every review attached to such a place and every Amenity record   *)
(* as they were when the call was made.                                    *)
(***************************************************************************)
C33_OutsideOfSubtreeKept ==
    last.op = "delete_user_and_associated_instances" => last.outside_kept

C33_UserDeletedAmongOthers ==
    /\ last.op = "delete_user_and_associated_instances"
    /\ last.res = "ok"
    /\ last.start_reviewed # {}
    /\ DOMAIN users # {}
    /\ \E p \in DOMAIN places : ReviewsOf({p}) # {}
    /\ DOMAIN amenities # {}

(***************************************************************************)
(* C34: delete_place_from_owner_place_list(P, U) of the whole-object       *)
(* manager, when U lists P, takes P off U.places and deletes place P, and  *)
(* when U is not stored or does not list P raises NotFound and writes      *)
(* nothing; either way the reviews stay as they were, and the call deletes *)
(* place P only when it has taken P off U.places.                          *)
(***************************************************************************)
C34_PlaceUnlistedThenDeleted ==
    (backend = "whole" /\ last.op = "delete_place_from_owner_place_list")
       => /\ last.reviews_kept
          /\ last.listed => (last.res = "ok" /\ last.unlisted /\ last.deleted)
          /\ ~last.listed => (last.res = "NotFound" /\ ~last.changed)
          /\ last.place_deleted => (last.listed /\ last.unlisted)

C34_ReviewedPlaceDeleted ==
    /\ backend = "whole"
    /\ last.op = "delete_place_from_owner_place_list"
    /\ last.res = "ok"
    /\ last.place_deleted
    /\ \E r \in DOMAIN reviews : ~repo_has(places, reviews[r].place_id)

C36_OneRecordForBothPlaces ==
    (/\ \A c \in Callers : callers[c].pc = "done" /\ callers[c].res # "NotFound"
     /\ callers["A"].name = callers["B"].name
     /\ callers["A"].place # callers["B"].place)
        => /\ Cardinality(get_by_attribute(amenities, "name", callers["A"].name)) <= 1
           /\ \A c \in Callers : Contains(places[callers[c].place].amenities, callers[c].name)

(***************************************************************************)
(* C37: once delete_place_and_associated_instances(P) and a                *)
(* create_review_for_place(P, U, data) that ran at the same time have both *)
(* finished, every stored review with place_id = P belongs to a stored     *)
(* place P that lists it: the race orphans no review.                      *)
(***************************************************************************)
C37_NoReviewOrphanedByRace ==
    (/\ idle
     /\ last.op = "delete_place_and_associated_instances"
     /\ \A c \in Callers : ~Running(c)
     /\ \E c \in Callers : callers[c].pc = "done" /\ callers[c].place = last.place)
        => \A r \in ReviewsOf({last.place}) :
              /\ repo_has(places, last.place)
              /\ Contains(places[last.place].reviews, r)

(***************************************************************************)
(* C38: in the in-memory and the file-backed repository every entity is    *)
(* stored under its own id: after any sequence of add, update and delete,  *)
(* the entity held at key k has id = k.                                    *)
(***************************************************************************)
C38_StoredUnderOwnId ==
    backend = "whole" => \A k \in DOMAIN amenities : amenities[k].id = k

C38_UpdatedWithIdKey ==
    /\ backend = "whole"
    /\ last.op = "InMemoryRepository_update"
    /\ last.held
    /\ last.sent_id
    /\ Cardinality(DOMAIN amenities) = 2
    /\ \E k \in DOMAIN amenities : amenities[k].name = "Spa"
    /\ AmenityId(1) \notin DOMAIN amenities

====
